---- MODULE Spec2Model ----
(***************************************************************************)
(* Payroll pipeline of agent-hr: the salary calculator                    *)
(* (SalaryBreakdownAgent and calculate_salary_breakdown_tool, agents.py)  *)
(* and the LangGraph orchestrator PayrollAgenticWorkflow                   *)
(* (payroll_workflow.py).                                                  *)
(*                                                                         *)
(* Money is an integer number of paise (1/100 rupee).  The contract       *)
(* figures fed in are whole rupees, so every component the calculator     *)
(* derives (40%, 50%, 15% of a figure) is an exact number of paise; the   *)
(* deductions are the only values the code rounds (round(x, 2)) and the   *)
(* rounding is modelled as such.  Python floats are idealised as exact    *)
(* rationals; at an exact half-paisa tie round() depends on the binary    *)
(* representation of the product, so both neighbours are possible.        *)
(*                                                                         *)
(* An Optional value is a sequence of length 0 (None) or 1.               *)
(***************************************************************************)
EXTENDS Integers, Sequences, FiniteSets, TLC

\* ------------------------------------------------------------------ bounds

\* Input figures are taken within MaxOffset rupees of every threshold of the code.
MaxOffset == 1

\* ------------------------------------------------------------------ helpers

None == <<>>

Some(v) == <<v>>

\* Python's `x or 0` on an Optional[float].
OrZero(x) == IF x = None THEN 0 ELSE x[1]

\* Python truthiness of an Optional[float]: neither None nor 0.
Truthy(x) == x # None /\ x[1] # 0

Min(a, b) == IF a <= b THEN a ELSE b

Max(a, b) == IF a >= b THEN a ELSE b

Abs(a) == IF a >= 0 THEN a ELSE 0 - a

\* Rupees to paise.
Rs(r) == r * 100

\* round(num/den, 2) of an amount of num/den paise (den > 0): the nearest whole
\* number of paise; both neighbours at an exact tie.
Round2(num, den) ==
    LET f == num \div den
        r == num % den
    IN  IF 2 * r < den THEN {f}
        ELSE IF 2 * r > den THEN {f + 1}
        ELSE {f, f + 1}

\* round(n * p / d, 2) for large n, split so that no product overflows.
Round2Mul(n, p, d) ==
    LET q == n \div d
        r == n % d
    IN  {q * p + x : x \in Round2(r * p, d)}

\* Whether amount y (paise) is num/den paise rounded to the nearest paisa.
IsRounded(y, num, den) == 2 * Abs(y * den - num) <= den

\* ------------------------------------------------------------------ program constants (paise)

PF_CAP == 180000

ESI_LIMIT == 2100000

STANDARD_DEDUCTION == 5000000

SLAB_1 == 25000000

SLAB_2 == 50000000

SLAB_3 == 100000000

ANNUAL_HEURISTIC == 20000000

TOOL_PT_LIMIT == 1500000

TOOL_PT == 20000

TOOL_TDS_EXEMPT == 25000000

\* ------------------------------------------------------------------ locations

Locations == {"Bengaluru, Karnataka", "Mumbai, Maharashtra", "Kolkata, West Bengal",
              "Chennai, Tamil Nadu", "New Delhi"}

\* `word in location.lower()` for the locations above.
Mentions(location, word) ==
    \/ location = "Bengaluru, Karnataka" /\ word = "karnataka"
    \/ location = "karnataka" /\ word = "karnataka"
    \/ location = "Karnataka" /\ word = "karnataka"
    \/ location = "Mumbai, Maharashtra" /\ word = "maharashtra"
    \/ location = "Kolkata, West Bengal" /\ word \in {"west bengal", "bengal"}
    \/ location = "Chennai, Tamil Nadu" /\ word = "tamil nadu"

\* ------------------------------------------------------------------ SalaryBreakdownAgent

\* SalaryBreakdownAgent._calculate_gross_components
CalculateGrossComponents(ss) ==
    LET basic0 == OrZero(ss.basic)
        hra0 == OrZero(ss.hra)
        allowances0 == OrZero(ss.allowances)
        others == OrZero(ss.special_allowance) + OrZero(ss.medical_allowance)
                  + OrZero(ss.transport_allowance) + OrZero(ss.meal_allowance)
        fromGross == Truthy(ss.gross) /\ basic0 + hra0 + allowances0 = 0
        fromBasic == ~fromGross /\ basic0 > 0 /\ ~Truthy(ss.gross)
        basic == IF fromGross THEN (ss.gross[1] * 4) \div 10 ELSE basic0
        hra == IF fromGross THEN basic \div 2
               ELSE IF fromBasic /\ hra0 = 0 THEN basic \div 2
               ELSE hra0
        allowances == IF fromGross THEN ss.gross[1] - basic - hra
                      ELSE IF fromBasic /\ allowances0 = 0 THEN (basic * 15) \div 100
                      ELSE allowances0
        total_allowances == allowances + others
    IN  [basic |-> basic, hra |-> hra, allowances |-> total_allowances,
         total |-> basic + hra + total_allowances]

\* SalaryBreakdownAgent._calculate_professional_tax (location already lower-cased)
CalculateProfessionalTax(gross_salary, location) ==
    IF Mentions(location, "karnataka")
    THEN IF gross_salary <= Rs(15000) THEN 0
         ELSE IF gross_salary <= Rs(25000) THEN Rs(200) ELSE Rs(300)
    ELSE IF Mentions(location, "maharashtra")
    THEN IF gross_salary <= Rs(5000) THEN 0
         ELSE IF gross_salary <= Rs(10000) THEN Rs(175) ELSE Rs(200)
    ELSE IF Mentions(location, "west bengal") \/ Mentions(location, "bengal")
    THEN IF gross_salary <= Rs(10000) THEN Rs(110)
         ELSE IF gross_salary <= Rs(15000) THEN Rs(130) ELSE Rs(200)
    ELSE IF Mentions(location, "tamil nadu") THEN Rs(200)
    ELSE IF gross_salary > Rs(15000) THEN Rs(200) ELSE 0

\* SalaryBreakdownAgent._calculate_tds followed by round(tds, 2): the annual tax
\* in twentieths of a paisa, times 1.04 / 12.
CalculateTds(annual_gross) ==
    LET taxable_income == Max(0, annual_gross - STANDARD_DEDUCTION)
        tax20 == IF taxable_income > SLAB_1
                 THEN IF taxable_income <= SLAB_2
                      THEN taxable_income - SLAB_1
                      ELSE IF taxable_income <= SLAB_3
                      THEN SLAB_1 + (taxable_income - SLAB_2) * 4
                      ELSE SLAB_1 + SLAB_2 * 4 + (taxable_income - SLAB_3) * 6
                 ELSE 0
    IN  Round2Mul(tax20, 13, 3000)

PFNoCap(basic) == IF basic > 0 THEN Round2(basic * 12, 100) ELSE {0}

\* The PF line of _calculate_deductions with its round(pf, 2).
CalculatePF(basic) ==
    IF basic > 0 THEN Round2(Min(basic * 12, PF_CAP * 100), 100) ELSE {0}

ESINoLimit(gross) == Round2(gross * 75, 10000)

\* The ESI line of _calculate_deductions with its round(esi, 2).
CalculateESI(gross) ==
    IF gross <= ESI_LIMIT THEN Round2(gross * 75, 10000) ELSE {0}

\* SalaryBreakdownAgent._calculate_deductions: every Deductions value it can return.
CalculateDeductions(gc, employee_info) ==
    LET location == IF employee_info.location = None \/ employee_info.location[1] = ""
                    THEN "karnataka" ELSE employee_info.location[1]
    IN  {[pf |-> pf, esi |-> esi,
          professional_tax |-> CalculateProfessionalTax(gc.total, location),
          tds |-> tds, advance |-> 0, loan_deduction |-> 0, other_deductions |-> 0] :
            pf \in CalculatePF(gc.basic),
            esi \in CalculateESI(gc.total),
            tds \in CalculateTds(gc.total * 12)}

\* sum(deductions.dict().values())
SumDeductions(d) ==
    d.pf + d.esi + d.professional_tax + d.tds + d.advance + d.loan_deduction
    + d.other_deductions

NetNoClamp(net_salary) == net_salary

\* max(0, net_salary) of SalaryBreakdownAgent._process.
ClampNet(net_salary) == Max(0, net_salary)

\* SalaryBreakdownAgent._process: every SalaryBreakdown it can return.
SalaryProcess(contract_data) ==
    LET gc == CalculateGrossComponents(contract_data.salary_structure)
    IN  {[gross_salary |-> gc.total, basic_salary |-> gc.basic, hra |-> gc.hra,
          allowances |-> gc.allowances, deductions |-> d,
          net_salary |-> ClampNet(gc.total - SumDeductions(d)),
          annual_gross |-> gc.total * 12,
          annual_net |-> ClampNet(gc.total - SumDeductions(d)) * 12] :
            d \in CalculateDeductions(gc, contract_data.employee_info)}

\* ------------------------------------------------------------------ calculate_salary_breakdown_tool

\* to_monthly_if_needed: a figure above 200000 is taken to be annual.
ToMonthlyIfNeeded(x) ==
    IF x = None THEN None
    ELSE IF x[1] > ANNUAL_HEURISTIC THEN Some(x[1] \div 12) ELSE x

\* The PF lines of the tool with round(pf, 2): 12% of basic, or of an estimated
\* basic of 40% of gross when basic is missing, capped.
ToolPF(basic_m, gross_m) ==
    IF basic_m # None THEN Round2(Min(basic_m[1] * 12, PF_CAP * 100), 100)
    ELSE Round2(Min(gross_m * 48, PF_CAP * 1000), 1000)

\* The ESI lines of the tool with round(esi, 2).
ToolESI(gross_m) == IF gross_m <= ESI_LIMIT THEN Round2(gross_m * 75, 10000) ELSE {0}

\* The TDS lines of the tool with round(tds, 2): 10% of the annual gross above
\* 250000, a twelfth of it per month.
ToolTDS(gross_m) == Round2(Max(0, gross_m * 12 - TOOL_TDS_EXEMPT), 120)

\* max(0.0, gross_m - total_deductions) of the tool.
ToolClampNet(net) == Max(0, net)

\* calculate_salary_breakdown_tool on the parsed salary_structure: every result
\* it can return, an error record or a breakdown.
ToolCalculate(ss) ==
    LET basic_m == ToMonthlyIfNeeded(ss.basic)
        hra_m == ToMonthlyIfNeeded(ss.hra)
        allowances_m == ToMonthlyIfNeeded(ss.allowances)
        gross0 == ToMonthlyIfNeeded(ss.gross)
        gross_opt == IF gross0 = None
                        /\ (basic_m # None \/ hra_m # None \/ allowances_m # None)
                     THEN Some(OrZero(basic_m) + OrZero(hra_m) + OrZero(allowances_m))
                     ELSE gross0
    IN  IF gross_opt = None
        THEN {[error |-> "Insufficient salary data to compute gross salary"]}
        ELSE LET gross_m == gross_opt[1]
                 professional_tax == IF gross_m > TOOL_PT_LIMIT THEN TOOL_PT ELSE 0
             IN  {[error |-> "",
                   gross_salary |-> gross_m,
                   deductions |-> [pf |-> pf, esi |-> esi,
                                   professional_tax |-> professional_tax, tds |-> tds],
                   net_salary |-> ToolClampNet(gross_m - (pf + esi + professional_tax + tds))] :
                     pf \in ToolPF(basic_m, gross_m),
                     esi \in ToolESI(gross_m),
                     tds \in ToolTDS(gross_m)}

\* ------------------------------------------------------------------ PayrollRAGSystem

\* PayrollRAGSystem._calculate_professional_tax
RagProfessionalTax(state, gross_salary) ==
    IF Mentions(state, "karnataka")
    THEN IF gross_salary <= Rs(15000) THEN 0
         ELSE IF gross_salary <= Rs(25000) THEN Rs(200) ELSE Rs(300)
    ELSE IF Mentions(state, "maharashtra")
    THEN IF gross_salary <= Rs(5000) THEN 0
         ELSE IF gross_salary <= Rs(10000) THEN Rs(175) ELSE Rs(200)
    ELSE IF Mentions(state, "west bengal") \/ Mentions(state, "bengal")
    THEN IF gross_salary <= Rs(10000) THEN Rs(110)
         ELSE IF gross_salary <= Rs(15000) THEN Rs(130) ELSE Rs(200)
    ELSE IF Mentions(state, "tamil nadu") THEN Rs(200)
    ELSE IF gross_salary > Rs(15000) THEN Rs(200) ELSE 0

\* PayrollRAGSystem.get_all_applicable_rules: the rule values the validator reads.
\* The retrieved documents only fill the "rules" text lists, which nothing reads.
GetAllApplicableRules(employee_data) ==
    [professional_tax_rules |->
        [state |-> employee_data.state,
         monthly_amount |-> RagProfessionalTax(employee_data.state, employee_data.gross_salary)]]

\* ------------------------------------------------------------------ ComplianceMapperAgent

\* ComplianceMapperAgent._validate_pf: the issues it raises.
ValidatePF(sb) ==
    IF Abs(Min(sb.basic_salary * 12, PF_CAP * 100) - sb.deductions.pf * 100) > Rs(1) * 100
    THEN <<"PF calculation mismatch">> ELSE <<>>

\* ComplianceMapperAgent._validate_esi
ValidateESI(sb) ==
    IF sb.gross_salary <= ESI_LIMIT
    THEN IF Abs(sb.gross_salary * 75 - sb.deductions.esi * 10000) > Rs(1) * 10000
         THEN <<"ESI calculation mismatch">> ELSE <<>>
    ELSE IF sb.deductions.esi > 0
         THEN <<"ESI deducted for employee earning > 21,000/month">> ELSE <<>>

\* ComplianceMapperAgent._validate_professional_tax
ValidateProfessionalTax(sb, pt_rules) ==
    IF Abs(pt_rules.monthly_amount - sb.deductions.professional_tax) > Rs(5)
    THEN <<"Professional Tax mismatch">> ELSE <<>>

\* A TDS check against a fifth of the net salary instead.
ValidateTDSAgainstNet(sb) ==
    IF sb.net_salary > 0 /\ sb.deductions.tds * 10 > sb.net_salary * 2
    THEN <<"TDS appears unusually high - please verify calculation">> ELSE <<>>

\* ComplianceMapperAgent._validate_tds: tds > gross * 0.3
ValidateTDS(sb) ==
    IF sb.deductions.tds * 10 > sb.gross_salary * 3
    THEN <<"TDS appears unusually high - please verify calculation">> ELSE <<>>

\* The recommendations of the four validators: one with each issue, and two that
\* come without an issue.
RecommendPF(sb) ==
    (IF ValidatePF(sb) # <<>>
     THEN <<"Recalculate PF as 12% of basic salary with 1800 monthly cap">> ELSE <<>>)
    \o (IF sb.basic_salary > Rs(15000) /\ sb.deductions.pf # PF_CAP
        THEN <<"Consider voluntary PF contribution above statutory limit">> ELSE <<>>)

RecommendESI(sb) ==
    IF ValidateESI(sb) = <<>> THEN <<>>
    ELSE IF sb.gross_salary <= ESI_LIMIT
    THEN <<"Recalculate ESI as 0.75% of gross salary">>
    ELSE <<"Remove ESI deduction as employee exceeds salary limit">>

RecommendProfessionalTax(sb, pt_rules) ==
    IF ValidateProfessionalTax(sb, pt_rules) # <<>>
    THEN <<"Apply correct Karnataka professional tax rates">> ELSE <<>>

RecommendTDS(sb) ==
    (IF sb.annual_gross > Rs(300000) /\ sb.deductions.tds = 0
     THEN <<"Review TDS calculation for income above exemption limit">> ELSE <<>>)
    \o (IF ValidateTDS(sb) # <<>>
        THEN <<"Check TDS calculation considering all exemptions and deductions">>
        ELSE <<>>)

\* `"review" in issue.lower()` for the issue texts above: none of them holds the
\* word (only recommendations do).
MentionsReview(issue) == issue \in {}

StatusInverted(issues) ==
    IF \E i \in 1..Len(issues) : MentionsReview(issues[i])
    THEN "REVIEW_REQUIRED"
    ELSE IF Len(issues) = 0 THEN "NON_COMPLIANT" ELSE "COMPLIANT"

\* The compliance_status lines of ComplianceMapperAgent._process.
ComplianceStatusOf(issues) ==
    IF \E i \in 1..Len(issues) : MentionsReview(issues[i])
    THEN "REVIEW_REQUIRED"
    ELSE IF Len(issues) = 0 THEN "COMPLIANT" ELSE "NON_COMPLIANT"

ConfidenceNoFloor(n_issues, n_rules) ==
    Min(100, (90 - 10 * n_issues) + Min(10, 2 * n_rules))

\* ComplianceMapperAgent._calculate_confidence_score on an issues list of length
\* n_issues and an applied_rules list of length n_rules, in hundredths (the
\* result is round(confidence, 2)).
CalculateConfidenceScore(n_issues, n_rules) ==
    Min(100, Max(50, 90 - 10 * n_issues) + Min(10, 2 * n_rules))

\* ComplianceMapperAgent._create_validated_deductions
CreateValidatedDeductions(sb, rules) ==
    {[pf |-> pf, esi |-> esi,
      professional_tax |-> rules.professional_tax_rules.monthly_amount,
      tds |-> sb.deductions.tds, advance |-> sb.deductions.advance,
      loan_deduction |-> sb.deductions.loan_deduction,
      other_deductions |-> sb.deductions.other_deductions] :
        pf \in Round2(Min(sb.basic_salary * 12, PF_CAP * 100), 100),
        esi \in (IF sb.gross_salary <= ESI_LIMIT
                 THEN Round2(sb.gross_salary * 75, 10000) ELSE {0})}

\* ComplianceMapperAgent._process from applicable_rules on: every
\* ComplianceValidation it can return for the rules the store handed back.
ComplianceProcessWith(sb, rules) ==
    LET issues == ValidatePF(sb) \o ValidateESI(sb)
                  \o ValidateProfessionalTax(sb, rules.professional_tax_rules)
                  \o ValidateTDS(sb)
        applied_rules == <<"PF: 12% of basic salary, max 1800/month",
                           "ESI: 0.75% of gross salary for employees earning <= 21,000/month",
                           "Professional Tax: Karnataka state rules applied",
                           "TDS: Calculated based on current income tax slabs with standard deduction">>
        recommendations == RecommendPF(sb) \o RecommendESI(sb)
                           \o RecommendProfessionalTax(sb, rules.professional_tax_rules)
                           \o RecommendTDS(sb)
    IN  {[compliance_status |-> ComplianceStatusOf(issues), issues |-> issues,
          validated_deductions |-> vd, recommendations |-> recommendations,
          applied_rules |-> applied_rules,
          confidence_score |-> CalculateConfidenceScore(Len(issues), Len(applied_rules))] :
            vd \in CreateValidatedDeductions(sb, rules)}

\* ComplianceMapperAgent._process: every ComplianceValidation it can return.
ComplianceProcess(sb) ==
    ComplianceProcessWith(sb, GetAllApplicableRules(
                    [basic_salary |-> sb.basic_salary, gross_salary |-> sb.gross_salary,
                     annual_income |-> sb.annual_gross, state |-> "Karnataka"]))

\* ------------------------------------------------------------------ validate_compliance_tool

\* validate_compliance_tool on the JSON of a salary breakdown: the dict it
\* returns. The amounts are whole paise, so pf > 1800 + 1e-6 is pf > 1800 and
\* prof_tax < 200 - 1e-6 is prof_tax < 200.
ToolValidateCompliance(sd) ==
    LET gross == sd.gross_salary
        pf == sd.deductions.pf
        esi == sd.deductions.esi
        prof_tax == sd.deductions.professional_tax
        tds == sd.deductions.tds
        net == sd.net_salary
        pf_issue == pf > PF_CAP
        esi_issue == gross > ESI_LIMIT /\ esi > 0
        pt_issue == gross > TOOL_PT_LIMIT /\ prof_tax < TOOL_PT
        tds_issue == net > 0 /\ tds * 10 > net * 2
        issues == (IF pf_issue THEN <<"PF exceeds statutory monthly cap of 1800.">> ELSE <<>>)
                  \o (IF esi_issue
                      THEN <<"ESI deducted even though gross > 21,000; ESI shouldn't apply.">>
                      ELSE <<>>)
                  \o (IF pt_issue THEN <<"Professional tax appears too low">> ELSE <<>>)
                  \o (IF tds_issue
                      THEN <<"TDS is unusually high compared to net salary; re-check tax estimates.">>
                      ELSE <<>>)
        recs == (IF pf_issue
                 THEN <<"Reduce PF to statutory cap calculation or verify basic salary amount.">>
                 ELSE <<>>)
                \o (IF esi_issue
                    THEN <<"Remove ESI for this employee or verify gross salary.">> ELSE <<>>)
                \o (IF gross <= ESI_LIMIT /\ esi = 0
                    THEN <<"Verify whether employee is enrolled for ESI if gross <= 21,000.">>
                    ELSE <<>>)
                \o (IF pt_issue
                    THEN <<"Verify state professional tax rules; rates differ by state.">>
                    ELSE <<>>)
                \o (IF tds_issue
                    THEN <<"Recompute TDS using exact tax slabs and exemptions for the employee">>
                    ELSE <<>>)
    IN  [compliance_status |-> IF issues = <<>> THEN "COMPLIANT" ELSE "NON_COMPLIANT",
         issues |-> issues,
         validated_deductions |-> [pf |-> pf, esi |-> esi, professional_tax |-> prof_tax,
                                   tds |-> tds],
         recommendations |-> recs]

\* What _process did: the value it returned, or the exception it raised.
Returned(v) == [ok |-> TRUE, value |-> Some(v), error |-> None]

Raised(message) == [ok |-> FALSE, value |-> None, error |-> Some(message)]

\* How the retrieval behind get_all_applicable_rules can go: the documents are
\* found; embed_query or collection.query raises inside search_compliance_rules,
\* which returns []; or get_all_applicable_rules itself raises and its except
\* branch returns {}.
Retrievals == {"retrieved", "search failed", "rules failed"}

\* search_compliance_rules: the rule texts found.
SearchComplianceRules(how) ==
    IF how = "retrieved" THEN <<"rule text">> ELSE <<>>

\* get_all_applicable_rules as _process receives it: the rules (their "rules"
\* text lists, filled from the search, are read by nothing), or the empty dict.
ApplicableRules(employee_data, how) ==
    IF how = "rules failed" THEN None
    ELSE Some([values |-> GetAllApplicableRules(employee_data),
               rules |-> SearchComplianceRules(how)])

\* ComplianceMapperAgent._process under a retrieval: applicable_rules["pf_rules"]
\* raises KeyError on the empty dict, before any validation.
ComplianceOutcomes(sb, how) ==
    IF ApplicableRules([basic_salary |-> sb.basic_salary, gross_salary |-> sb.gross_salary,
                        annual_income |-> sb.annual_gross, state |-> "Karnataka"], how) = None
    THEN {Raised("'pf_rules'")}
    ELSE {Returned(v) : v \in ComplianceProcess(sb)}

\* ------------------------------------------------------------------ AnomalyDetectorAgent

Anomaly(type, severity, affected_field) ==
    [type |-> type, severity |-> severity, affected_field |-> affected_field]

\* AnomalyDetectorAgent._detect_calculation_anomalies
DetectCalculationAnomalies(sd) ==
    (IF Abs(sd.basic_salary + sd.hra + sd.allowances - sd.gross_salary) > Rs(10)
     THEN <<Anomaly("calculation_error", "HIGH", "gross_salary")>> ELSE <<>>)
    \o (IF Abs(sd.gross_salary - SumDeductions(sd.deductions) - sd.net_salary) > Rs(1)
        THEN <<Anomaly("calculation_error", "HIGH", "net_salary")>> ELSE <<>>)
    \o (IF sd.net_salary < 0
        THEN <<Anomaly("calculation_error", "CRITICAL", "net_salary")>> ELSE <<>>)

\* AnomalyDetectorAgent._detect_data_inconsistencies
DetectDataInconsistencies(contract_data, sd) ==
    IF contract_data = None THEN <<>>
    ELSE LET ss == contract_data[1].salary_structure
         IN  (IF Truthy(ss.gross) /\ Abs(ss.gross[1] - sd.gross_salary) > Rs(100)
              THEN <<Anomaly("data_inconsistency", "MEDIUM", "gross_salary")>> ELSE <<>>)
             \o (IF Truthy(ss.basic) /\ Abs(ss.basic[1] - sd.basic_salary) > Rs(50)
                 THEN <<Anomaly("data_inconsistency", "MEDIUM", "basic_salary")>> ELSE <<>>)

\* AnomalyDetectorAgent._detect_compliance_anomalies
DetectComplianceAnomalies(compliance_data) ==
    IF compliance_data = None THEN <<>>
    ELSE IF compliance_data[1].compliance_status = "NON_COMPLIANT"
    THEN [i \in 1..Len(compliance_data[1].issues) |->
            Anomaly("compliance_issue", "HIGH", "deductions")]
    ELSE <<>>

\* x / gross * 100 > pct, for gross # 0.
PercentAbove(x, gross, pct) ==
    IF gross > 0 THEN x * 10 > (pct \div 10) * gross ELSE x * 10 < (pct \div 10) * gross

\* x / gross * 100 < pct, for gross # 0.
PercentBelow(x, gross, pct) ==
    IF gross > 0 THEN x * 10 < (pct \div 10) * gross ELSE x * 10 > (pct \div 10) * gross

\* AnomalyDetectorAgent._detect_outlier_values, for gross_salary # 0.
DetectOutlierValues(sd) ==
    (IF PercentAbove(sd.basic_salary, sd.gross_salary, 70)
     THEN <<Anomaly("data_inconsistency", "LOW", "basic_salary")>>
     ELSE IF PercentBelow(sd.basic_salary, sd.gross_salary, 20)
     THEN <<Anomaly("data_inconsistency", "MEDIUM", "basic_salary")>>
     ELSE <<>>)
    \o (IF PercentAbove(SumDeductions(sd.deductions), sd.gross_salary, 40)
        THEN <<Anomaly("calculation_error", "MEDIUM", "deductions")>> ELSE <<>>)

CountSeverity(anomalies, severity) ==
    Cardinality({i \in 1..Len(anomalies) : anomalies[i].severity = severity})

StatusIgnoringTotal(anomalies) ==
    IF Len(anomalies) = 0 THEN "NORMAL"
    ELSE IF CountSeverity(anomalies, "CRITICAL") > 0 THEN "CRITICAL"
    ELSE IF CountSeverity(anomalies, "HIGH") > 2 THEN "CRITICAL"
    ELSE "REVIEW_REQUIRED"

\* AnomalyDetectorAgent._determine_overall_status
DetermineOverallStatus(anomalies) ==
    IF Len(anomalies) = 0 THEN "NORMAL"
    ELSE IF CountSeverity(anomalies, "CRITICAL") > 0 THEN "CRITICAL"
    ELSE IF CountSeverity(anomalies, "HIGH") > 2 \/ Len(anomalies) > 5 THEN "CRITICAL"
    ELSE "REVIEW_REQUIRED"

\* The end of AnomalyDetectorAgent._process: the AnomalyDetection built from the
\* anomalies the four detectors found.
BuildReport(anomalies) ==
    [has_anomalies |-> Len(anomalies) > 0, anomalies |-> anomalies,
     overall_status |-> DetermineOverallStatus(anomalies)]

\* AnomalyDetectorAgent._process on the dict the node builds: the report, or the
\* exception it raises on an absent breakdown (attribute of None) or a zero gross
\* (division by zero).
AnomalyProcess(data) ==
    IF data.salary_data = None
    THEN Raised("'NoneType' object has no attribute 'basic_salary'")
    ELSE IF data.salary_data[1].gross_salary = 0
    THEN Raised("float division by zero")
    ELSE LET sd == data.salary_data[1]
             anomalies == DetectCalculationAnomalies(sd)
                          \o DetectDataInconsistencies(data.contract_data, sd)
                          \o DetectComplianceAnomalies(data.compliance_data)
                          \o DetectOutlierValues(sd)
         IN  Returned(BuildReport(anomalies))

\* ------------------------------------------------------------------ detect_anomalies_tool

\* The anomaly dicts of the tool.
ToolAnomaly(type, severity, affected_field) ==
    [type |-> type, severity |-> severity, affected_field |-> affected_field]

\* detect_anomalies_tool on the JSON of {contract, salary, compliance}: the dict
\* it returns. A component above 200000 is taken as annual and divided by 12;
\* the sums are kept as twelve times their amount.
ToolDetectAnomalies(cd) ==
    LET gross == cd.salary.gross_salary
        total_deds == cd.salary.deductions.pf + cd.salary.deductions.esi
                      + cd.salary.deductions.professional_tax + cd.salary.deductions.tds
        ss == cd.contract.salary_structure
        Monthly12(v) == IF v[1] > Rs(200000) THEN v[1] ELSE v[1] * 12
        present_components == ss.basic # None \/ ss.hra # None \/ ss.allowances # None
        comps_sum12 == (IF ss.basic # None THEN Monthly12(ss.basic) ELSE 0)
                       + (IF ss.hra # None THEN Monthly12(ss.hra) ELSE 0)
                       + (IF ss.allowances # None THEN Monthly12(ss.allowances) ELSE 0)
        diff12 == Abs(comps_sum12 - gross * 12)
        base12 == Max(Rs(1), gross) * 12
        mismatch == present_components /\ comps_sum12 > 0 /\ diff12 * 20 > base12
        non_compliant == cd.compliance.compliance_status = "NON_COMPLIANT"
        anomalies ==
            (IF gross <= 0
             THEN <<ToolAnomaly("calculation_error", "HIGH", "gross_salary")>> ELSE <<>>)
            \o (IF total_deds < 0
                THEN <<ToolAnomaly("calculation_error", "HIGH", "deductions")>> ELSE <<>>)
            \o (IF mismatch
                THEN <<ToolAnomaly("data_inconsistency",
                                   IF diff12 * 5 <= base12 THEN "MEDIUM" ELSE "HIGH",
                                   "gross vs components")>>
                ELSE <<>>)
            \o (IF non_compliant
                THEN <<ToolAnomaly("data_inconsistency", "MEDIUM", "compliance")>>
                ELSE <<>>)
        overall_status ==
            IF gross <= 0 \/ total_deds < 0 THEN "CRITICAL"
            ELSE IF mismatch \/ non_compliant THEN "REVIEW_REQUIRED"
            ELSE "NORMAL"
    IN  [has_anomalies |-> Len(anomalies) > 0, anomalies |-> anomalies,
         overall_status |-> overall_status]

\* ------------------------------------------------------------------ contract figures

Near(t) == {Some(Rs(t + d)) : d \in (0 - MaxOffset)..MaxOffset}

BasicFigures == {None, Some(0), Some(Rs(0 - 1000)), Some(Rs(8000))} \cup Near(15000)

GrossFigures == {None, Some(0), Some(Rs(100)), Some(Rs(20000)), Some(Rs(240000))}
                \cup Near(15000) \cup Near(21000) \cup Near(25000)

HraFigures == {None, Some(Rs(4000))}

AllowanceFigures == {None, Some(Rs(2000))}

SpecialFigures == {None, Some(Rs(1250))}

LocationValues == {None} \cup {Some(l) : l \in Locations}

SalaryStructure(basic, hra, allowances, special, gross) ==
    [basic |-> basic, hra |-> hra, allowances |-> allowances,
     special_allowance |-> special, medical_allowance |-> None,
     transport_allowance |-> None, meal_allowance |-> None, gross |-> gross]

ContractData(employee_id, location, ss) ==
    [employee_info |-> [employee_id |-> employee_id, location |-> location],
     salary_structure |-> ss]

\* The contracts the calculators are run on.
CalcContracts ==
    {ContractData(Some("EMP001"), loc, SalaryStructure(b, h, a, s, g)) :
        b \in BasicFigures, h \in HraFigures, a \in AllowanceFigures,
        s \in SpecialFigures, g \in GrossFigures, loc \in LocationValues}

VARIABLES
    calc_input,   \* the ContractData of the current calculator call
    agent_out,    \* SalaryBreakdownAgent's breakdown for calc_input, None before the call
    tool_out,     \* calculate_salary_breakdown_tool's result for calc_input, None before
    earlier,      \* (basic, pf) of one earlier calculator call, None when there is none
    pc,           \* the graph node to run next, or idle / end / returned
    contract,     \* what the file at contract_path holds: readable or not, and its content
    employee_id,  \* state["employee_id"]
    current_step, \* state["current_step"]
    agent_results,\* state["agent_results"], in insertion order
    final_result, \* state["final_result"]
    errors,       \* state["errors"]
    result,       \* the ProcessingResult process_contract_sync returned
    unit_call,    \* the method called on its own and its arguments, None when idle
    unit_ret,     \* what the method called on its own returned, None before it returns
    batch_pc,     \* where batch_process_contracts is: idle, loop or returned
    contract_paths, \* the argument of batch_process_contracts
    batch_results, \* the results list of batch_process_contracts
    rag_store,    \* the persisted collections: the documents stored in each
    rag_last,     \* the add_document calls of the last operation on the store
    retrieval,    \* how the rule retrieval of the last compliance stage went
    pipe_pc,      \* where process_contract_pipeline is: idle, the tool to call, returned
    pipe_input,   \* the file at contract_path and what the environment answers in the call
    pipe_text,    \* the local `text` of process_contract_pipeline
    pipe_ran,     \* the tools process_contract_pipeline called, in call order
    pipe_output   \* the local `output` of process_contract_pipeline

calcVars == <<calc_input, agent_out, tool_out, earlier>>

stateVars == <<employee_id, current_step, agent_results, final_result, errors>>

flowVars == <<pc, contract, employee_id, current_step, agent_results, final_result,
              errors, result>>

unitVars == <<unit_call, unit_ret>>

batchVars == <<batch_pc, contract_paths, batch_results>>

ragVars == <<rag_store, rag_last, retrieval>>

pipeVars == <<pipe_pc, pipe_input, pipe_text, pipe_ran, pipe_output>>

\* Everything outside the calculator calls and the workflow.
otherVars == <<unitVars, batchVars, ragVars, pipeVars>>

vars == <<calc_input, agent_out, tool_out, earlier, pc, contract, employee_id,
          current_step, agent_results, final_result, errors, result, otherVars>>

\* The workflow object before process_contract_sync is called.
FlowIdle ==
    /\ pc = "idle"
    /\ contract = None
    /\ employee_id = None
    /\ current_step = "start"
    /\ agent_results = <<>>
    /\ final_result = None
    /\ errors = <<>>
    /\ result = None

CalcIdle ==
    /\ calc_input = None
    /\ agent_out = None
    /\ tool_out = None
    /\ earlier = None

UnitIdle ==
    /\ unit_call = None
    /\ unit_ret = None

\* batch_process_contracts is not running.
BatchIdle ==
    /\ batch_pc = "idle"
    /\ contract_paths = <<>>
    /\ batch_results = <<>>

\* The collection names of PayrollRAGSystem.__init__.
Collections == {"tax_rules", "pf_rules", "esi_rules", "state_rules", "general_compliance"}

\* The persist directory before the first PayrollRAGSystem is constructed on it.
RagIdle ==
    /\ rag_store = [c \in Collections |-> {}]
    /\ rag_last = None
    /\ retrieval = "not run"

\* process_contract_pipeline is not running.
PipeIdle ==
    /\ pipe_pc = "idle"
    /\ pipe_input = None
    /\ pipe_text = None
    /\ pipe_ran = <<>>
    /\ pipe_output = None

CalcInit == CalcIdle /\ FlowIdle /\ UnitIdle /\ BatchIdle /\ RagIdle /\ PipeIdle

\* A contract is handed to the calculators.
CalcSubmit ==
    /\ calc_input = None
    /\ \E c \in CalcContracts : calc_input' = Some(c)
    /\ UNCHANGED <<agent_out, tool_out, earlier>>
    /\ UNCHANGED flowVars
    /\ UNCHANGED otherVars

\* SalaryBreakdownAgent.execute(contract_data)
CalcAgent ==
    /\ calc_input # None
    /\ agent_out = None
    /\ \E b \in SalaryProcess(calc_input[1]) : agent_out' = Some(b)
    /\ UNCHANGED <<calc_input, tool_out, earlier>>
    /\ UNCHANGED flowVars
    /\ UNCHANGED otherVars

\* calculate_salary_breakdown_tool(json.dumps(parsed))
CalcTool ==
    /\ calc_input # None
    /\ tool_out = None
    /\ \E r \in ToolCalculate(calc_input[1].salary_structure) : tool_out' = Some(r)
    /\ UNCHANGED <<calc_input, agent_out, earlier>>
    /\ UNCHANGED flowVars
    /\ UNCHANGED otherVars

\* The basic the tool computed PF from, None when it estimated one or failed.
ToolBasic ==
    IF calc_input = None \/ tool_out = None THEN None
    ELSE IF tool_out[1].error # "" THEN None
    ELSE ToMonthlyIfNeeded(calc_input[1].salary_structure.basic)

\* The (basic, pf) pairs of the finished calls on calc_input.
FinishedPF ==
    (IF agent_out # None
     THEN {[basic |-> agent_out[1].basic_salary, pf |-> agent_out[1].deductions.pf]}
     ELSE {})
    \cup (IF ToolBasic # None
          THEN {[basic |-> ToolBasic[1], pf |-> tool_out[1].deductions.pf]}
          ELSE {})

\* Both calls returned; one of them is remembered for the next contract.
CalcDone ==
    /\ agent_out # None
    /\ tool_out # None
    /\ \E e \in FinishedPF : earlier' = Some(e)
    /\ calc_input' = None
    /\ agent_out' = None
    /\ tool_out' = None
    /\ UNCHANGED flowVars
    /\ UNCHANGED otherVars

CalcNext == CalcSubmit \/ CalcAgent \/ CalcTool \/ CalcDone

CalcSpec == CalcInit /\ [][CalcNext]_vars

\* ------------------------------------------------------------------ PayrollAgenticWorkflow

\* The edges of the workflow graph after a failed compliance stage led past the
\* remaining stages.
EdgesSkipAnomaly(node) ==
    CASE node = "START" -> "contract_reader"
      [] node = "contract_reader" -> "salary_breakdown"
      [] node = "salary_breakdown" -> "compliance_mapper"
      [] node = "compliance_mapper" -> "paystub_generator"
      [] node = "anomaly_detector" -> "paystub_generator"
      [] node = "paystub_generator" -> "finalize_result"
      [] node = "finalize_result" -> "END"

\* _create_workflow_graph: the node that follows node (sequential processing).
NextNode(node) ==
    CASE node = "START" -> "contract_reader"
      [] node = "contract_reader" -> "salary_breakdown"
      [] node = "salary_breakdown" -> "compliance_mapper"
      [] node = "compliance_mapper" -> "anomaly_detector"
      [] node = "anomaly_detector" -> "paystub_generator"
      [] node = "paystub_generator" -> "finalize_result"
      [] node = "finalize_result" -> "END"

\* The stages of the pipeline, in the order of the graph.
Stages == <<"contract_reader", "salary_breakdown", "compliance_mapper",
            "anomaly_detector", "paystub_generator">>

\* BaseAgent.execute: the AgentResult for what _process did, a returned value or
\* a raised exception.
Execute(agent_name, outcome) ==
    [agent_name |-> agent_name, success |-> outcome.ok, output |-> outcome.value,
     error_message |-> outcome.error]

\* An exception raised inside _process for a reason outside the computation
\* modelled here (BaseAgent.execute's except branch).  BaseAgent.execute catches
\* every exception of _process and nothing else in a node raises, so the except
\* branches of the nodes and of process_contract_sync are never entered.
Fault == Raised("internal error")

\* state["agent_results"].get(node): the AgentResult stored under node, or None.
GetResult(results, node) ==
    IF \E i \in 1..Len(results) : results[i].node = node
    THEN Some((CHOOSE e \in {results[i] : i \in 1..Len(results)} : e.node = node).result)
    ELSE None

\* state["agent_results"][node] = agent_result (no node stores twice).
PutResult(results, node, agent_result) ==
    Append(results, [node |-> node, result |-> agent_result])

\* `r and r.success` on the Optional AgentResult r.
Succeeded(r) == r # None /\ r[1].success

\* `r.output if r and r.success else None`
OutputOf(r) == IF Succeeded(r) THEN r[1].output ELSE None

StageErrorNoDetail(label, agent_result) == <<label, "">>

\* The entry a node appends to state["errors"] for a failed AgentResult.
StageError(label, agent_result) == <<label, agent_result.error_message[1]>>

\* The entry a node appends when it does not run its agent.
SkipError(message) == <<message, "">>

\* ContractReaderAgent._process: the structured contract, or the exception of the
\* PDF extraction, the LLM call or the structuring.
ContractReaderProcess(file) ==
    IF file.readable THEN Returned(file.data) ELSE Raised("PDF extraction failed")

\* PaystubGeneratorAgent._process: PaystubData rejects compliance_info=None, and
\* otherwise the assignment paystub_data.pdf_path = ... to a field the model does
\* not declare is rejected by pydantic.
PaystubProcess(data) ==
    IF data.compliance_data = None
    THEN Raised("validation error for PaystubData: compliance_info")
    ELSE Raised("\"PaystubData\" object has no field \"pdf_path\"")

\* The contracts submitted to the workflow.
EmployeeIds == {None, Some("EMP001")}

FlowStructures ==
    {SalaryStructure(None, None, None, None, g) : g \in {None, Some(0)} \cup Near(20000)}
    \cup {SalaryStructure(Some(Rs(50000)), Some(Rs(20000)), Some(Rs(15000)), s, None) :
            s \in SpecialFigures}
    \cup {SalaryStructure(b, None, None, None, None) : b \in Near(8000)}

FlowContracts ==
    {[readable |-> r, data |-> ContractData(e, loc, ss)] :
        r \in BOOLEAN, e \in EmployeeIds,
        loc \in {None, Some("Chennai, Tamil Nadu")}, ss \in FlowStructures}

\* process_contract_sync, up to app.invoke: the initial state for contract_path.
StartRun(f) ==
    /\ pc \in {"idle", "returned"}
    /\ contract' = Some(f)
    /\ employee_id' = None
    /\ current_step' = "start"
    /\ agent_results' = <<>>
    /\ final_result' = None
    /\ errors' = <<>>
    /\ pc' = NextNode("START")
    /\ result' = None
    /\ UNCHANGED calcVars

\* process_contract_sync called on its own with a contract path.
ProcessContractSync ==
    /\ \E f \in FlowContracts : StartRun(f)
    /\ UNCHANGED otherVars

\* _contract_reader_node
ContractReaderNode ==
    /\ pc = "contract_reader"
    /\ LET agent_result == Execute("ContractReaderAgent", ContractReaderProcess(contract[1]))
       IN  /\ agent_results' = PutResult(agent_results, "contract_reader", agent_result)
           /\ current_step' = "contract_reader"
           /\ IF ~agent_result.success
              THEN /\ errors' = Append(errors, StageError("Contract Reader failed", agent_result))
                   /\ UNCHANGED employee_id
              ELSE /\ employee_id' =
                        IF agent_result.output[1].employee_info.employee_id
                              \notin {None, Some("")}
                        THEN agent_result.output[1].employee_info.employee_id
                        ELSE employee_id
                   /\ UNCHANGED errors
    /\ pc' = NextNode("contract_reader")
    /\ UNCHANGED <<contract, final_result, result>>
    /\ UNCHANGED calcVars
    /\ UNCHANGED otherVars

\* _salary_breakdown_node
SalaryBreakdownNode ==
    /\ pc = "salary_breakdown"
    /\ LET contract_result == GetResult(agent_results, "contract_reader")
       IN  IF ~Succeeded(contract_result)
           THEN /\ errors' = Append(errors,
                        SkipError("Cannot proceed with salary breakdown - contract reading failed"))
                /\ UNCHANGED <<agent_results, current_step>>
           ELSE \E outcome \in {Returned(b) : b \in SalaryProcess(contract_result[1].output[1])}
                               \cup {Fault} :
                  LET agent_result == Execute("SalaryBreakdownAgent", outcome)
                  IN  /\ agent_results' = PutResult(agent_results, "salary_breakdown", agent_result)
                      /\ current_step' = "salary_breakdown"
                      /\ errors' = IF ~agent_result.success
                                   THEN Append(errors, StageError("Salary Breakdown failed", agent_result))
                                   ELSE errors
    /\ pc' = NextNode("salary_breakdown")
    /\ UNCHANGED <<contract, employee_id, final_result, result>>
    /\ UNCHANGED calcVars
    /\ UNCHANGED otherVars

\* _compliance_mapper_node
ComplianceMapperNode ==
    /\ pc = "compliance_mapper"
    /\ LET salary_result == GetResult(agent_results, "salary_breakdown")
       IN  IF ~Succeeded(salary_result)
           THEN /\ errors' = Append(errors,
                        SkipError("Cannot proceed with compliance mapping - salary breakdown failed"))
                /\ UNCHANGED <<agent_results, current_step, retrieval>>
           ELSE \E how \in Retrievals :
                \E outcome \in ComplianceOutcomes(salary_result[1].output[1], how) \cup {Fault} :
                  LET agent_result == Execute("ComplianceMapperAgent", outcome)
                  IN  /\ retrieval' = how
                      /\ agent_results' = PutResult(agent_results, "compliance_mapper", agent_result)
                      /\ current_step' = "compliance_mapper"
                      /\ errors' = IF ~agent_result.success
                                   THEN Append(errors, StageError("Compliance Mapper failed", agent_result))
                                   ELSE errors
    /\ pc' = NextNode("compliance_mapper")
    /\ UNCHANGED <<contract, employee_id, final_result, result>>
    /\ UNCHANGED calcVars
    /\ UNCHANGED <<unitVars, batchVars, pipeVars, rag_store, rag_last>>

\* _anomaly_detector_node
AnomalyDetectorNode ==
    /\ pc = "anomaly_detector"
    /\ LET anomaly_input ==
               [contract_data |-> OutputOf(GetResult(agent_results, "contract_reader")),
                salary_data |-> OutputOf(GetResult(agent_results, "salary_breakdown")),
                compliance_data |-> OutputOf(GetResult(agent_results, "compliance_mapper"))]
       IN  \E outcome \in {AnomalyProcess(anomaly_input), Fault} :
              LET agent_result == Execute("AnomalyDetectorAgent", outcome)
              IN  /\ agent_results' = PutResult(agent_results, "anomaly_detector", agent_result)
                  /\ current_step' = "anomaly_detector"
                  /\ errors' = IF ~agent_result.success
                               THEN Append(errors, StageError("Anomaly Detector failed", agent_result))
                               ELSE errors
    /\ pc' = NextNode("anomaly_detector")
    /\ UNCHANGED <<contract, employee_id, final_result, result>>
    /\ UNCHANGED calcVars
    /\ UNCHANGED otherVars

\* _paystub_generator_node
PaystubGeneratorNode ==
    /\ pc = "paystub_generator"
    /\ LET contract_result == GetResult(agent_results, "contract_reader")
           salary_result == GetResult(agent_results, "salary_breakdown")
           compliance_result == GetResult(agent_results, "compliance_mapper")
       IN  IF ~(Succeeded(contract_result) /\ Succeeded(salary_result))
           THEN /\ errors' = Append(errors,
                        SkipError("Cannot generate paystub - missing required data"))
                /\ UNCHANGED <<agent_results, current_step>>
           ELSE LET paystub_input ==
                        [contract_data |-> contract_result[1].output,
                         salary_data |-> salary_result[1].output,
                         compliance_data |-> OutputOf(compliance_result)]
                    agent_result == Execute("PaystubGeneratorAgent", PaystubProcess(paystub_input))
                IN  /\ agent_results' = PutResult(agent_results, "paystub_generator", agent_result)
                    /\ current_step' = "paystub_generator"
                    /\ errors' = IF ~agent_result.success
                                 THEN Append(errors, StageError("Paystub Generator failed", agent_result))
                                 ELSE errors
    /\ pc' = NextNode("paystub_generator")
    /\ UNCHANGED <<contract, employee_id, final_result, result>>
    /\ UNCHANGED calcVars
    /\ UNCHANGED otherVars

\* state.get("employee_id", "unknown"): the key is in the state since
\* process_contract_sync put it there (as None), so the default is never used.
StateGetEmployeeId(stored) == stored

FailedAgentLogs(results) ==
    SelectSeq([i \in 1..Len(results) |->
                  [agent |-> results[i].node, success |-> results[i].result.success,
                   error |-> results[i].result.error_message]],
              LAMBDA e : ~e.success)

\* The agent_logs comprehension of _finalize_result_node.
AgentLogs(results) ==
    [i \in 1..Len(results) |->
        [agent |-> results[i].node, success |-> results[i].result.success,
         error |-> results[i].result.error_message]]

\* The success flag of _finalize_result_node: all critical agents succeeded.
OverallSuccess(results) ==
    \A node \in {"contract_reader", "salary_breakdown"} : Succeeded(GetResult(results, node))

\* _finalize_result_node: ProcessingResult(...) raises a validation error when
\* employee_id is None (the field is a required str).
FinalizeResultNode ==
    /\ pc = "finalize_result"
    /\ current_step' = "completed"
    /\ LET eid == StateGetEmployeeId(employee_id)
       IN  IF eid = None
           THEN /\ errors' = Append(errors,
                        <<"Failed to finalize result", "validation error for ProcessingResult: employee_id">>)
                /\ UNCHANGED final_result
           ELSE /\ final_result' = Some(
                        [success |-> OverallSuccess(agent_results),
                         employee_id |-> eid[1],
                         contract_data |-> OutputOf(GetResult(agent_results, "contract_reader")),
                         salary_data |-> OutputOf(GetResult(agent_results, "salary_breakdown")),
                         compliance_data |-> OutputOf(GetResult(agent_results, "compliance_mapper")),
                         anomalies_data |-> OutputOf(GetResult(agent_results, "anomaly_detector")),
                         paystub_data |-> OutputOf(GetResult(agent_results, "paystub_generator")),
                         errors |-> errors,
                         agent_logs |-> AgentLogs(agent_results)])
                /\ UNCHANGED errors
    /\ pc' = NextNode("finalize_result")
    /\ UNCHANGED <<contract, employee_id, agent_results, result>>
    /\ UNCHANGED calcVars
    /\ UNCHANGED otherVars

ErrorResultUnknown(state_errors) ==
    [success |-> FALSE, employee_id |-> "unknown", contract_data |-> None,
     salary_data |-> None, compliance_data |-> None, anomalies_data |-> None,
     paystub_data |-> None, errors |-> <<<<"Unknown error occurred", "">>>>,
     agent_logs |-> <<>>]

\* The ProcessingResult process_contract_sync builds when the final state holds
\* no final_result.
ErrorResult(state_errors) ==
    [success |-> FALSE, employee_id |-> "unknown", contract_data |-> None,
     salary_data |-> None, compliance_data |-> None, anomalies_data |-> None,
     paystub_data |-> None, errors |-> state_errors, agent_logs |-> <<>>]

\* process_contract_sync, after app.invoke returned the final state.
ProcessContractReturn ==
    /\ pc = "END"
    /\ result' = IF final_result # None THEN final_result ELSE Some(ErrorResult(errors))
    /\ pc' = "returned"
    /\ UNCHANGED <<contract, employee_id, current_step, agent_results, final_result, errors>>
    /\ UNCHANGED calcVars
    /\ UNCHANGED otherVars

Init == CalcInit

Next ==
    \/ ProcessContractSync
    \/ ContractReaderNode
    \/ SalaryBreakdownNode
    \/ ComplianceMapperNode
    \/ AnomalyDetectorNode
    \/ PaystubGeneratorNode
    \/ FinalizeResultNode
    \/ ProcessContractReturn

Spec == Init /\ [][Next]_vars

\* ------------------------------------------------------------------ properties of the workflow

\* state["agent_results"].get(node) in the current state.
Stage(node) == GetResult(agent_results, node)

\* The agent of node was executed.
Ran(node) == Stage(node) # None

\* The agent of node was executed and failed.
Failed(node) == Ran(node) /\ ~Stage(node)[1].success

\* entry is one of the strings of the error list errs.
HasError(errs, entry) == \E k \in DOMAIN errs : errs[k] = entry

\* The position of a stage in the pipeline.
StageIndex(node) == CHOOSE i \in DOMAIN Stages : Stages[i] = node

\* The record process_contract_sync returned.
Record == result[1]

\* C1 (as stated): the returned record's success flag is true if and only if the
\* salary stage succeeded, whatever the later steps, finalize included, did.
C1_SuccessIffSalarySucceeded ==
    pc = "returned" => (Record.success <=> Succeeded(Stage("salary_breakdown")))

\* C2 (as stated): when the salary stage fails, no later stage agent (compliance,
\* anomaly, paystub) is executed and the record has success=false and no salary,
\* compliance, anomaly or paystub section.
C2_SalaryFailureStopsPipeline ==
    (pc = "returned" /\ Failed("salary_breakdown")) =>
        /\ \A node \in {"compliance_mapper", "anomaly_detector", "paystub_generator"} :
              ~Ran(node)
        /\ Record.success = FALSE
        /\ Record.salary_data = None
        /\ Record.compliance_data = None
        /\ Record.anomalies_data = None
        /\ Record.paystub_data = None

\* C3: when the salary stage succeeded and the compliance or the anomaly stage
\* fails, the record's compliance_data or anomalies_data is absent, the stage's
\* error string is in the record's error list, and every following stage was
\* still executed.
C3_NonFatalFailuresContinue ==
    (pc = "returned" /\ Succeeded(Stage("salary_breakdown"))) =>
        /\ Failed("compliance_mapper") =>
              /\ Record.compliance_data = None
              /\ HasError(Record.errors,
                    <<"Compliance Mapper failed",
                      Stage("compliance_mapper")[1].error_message[1]>>)
              /\ Ran("anomaly_detector")
              /\ Ran("paystub_generator")
        /\ Failed("anomaly_detector") =>
              /\ Record.anomalies_data = None
              /\ HasError(Record.errors,
                    <<"Anomaly Detector failed",
                      Stage("anomaly_detector")[1].error_message[1]>>)
              /\ Ran("paystub_generator")

\* A run in which the compliance stage and the anomaly stage both failed after a
\* successful salary stage, and the record was returned as a success.
C3_BothFailedWitness ==
    /\ pc = "returned"
    /\ Succeeded(Stage("salary_breakdown"))
    /\ Failed("compliance_mapper")
    /\ Failed("anomaly_detector")
    /\ Ran("paystub_generator")
    /\ Record.success

C5_OneLogPerStage ==
    pc = "returned" =>
        [i \in DOMAIN Record.agent_logs |-> Record.agent_logs[i].agent] = Stages

\* C5 (amended): agent_logs of the returned record holds one entry, in stage
\* order, for each stage whose agent was executed and none for a stage that was
\* skipped: the contract reader and the anomaly detector always, the salary stage
\* when the reader succeeded, the compliance stage when the salary stage
\* succeeded, the paystub stage when both succeeded; and it is empty when
\* finalization failed.
C5_LogsListExecutedStages ==
    pc = "returned" =>
        LET logs == Record.agent_logs
            Logged(node) == \E i \in DOMAIN logs : logs[i].agent = node
            Ok(node) == \E i \in DOMAIN logs : logs[i].agent = node /\ logs[i].success
        IN  IF final_result = None
            THEN logs = <<>>
            ELSE /\ \A i \in DOMAIN logs : \A j \in DOMAIN logs :
                       i < j => StageIndex(logs[i].agent) < StageIndex(logs[j].agent)
                 /\ \A i \in DOMAIN logs :
                       /\ Ran(logs[i].agent)
                       /\ logs[i].success = Stage(logs[i].agent)[1].success
                       /\ logs[i].error = Stage(logs[i].agent)[1].error_message
                 /\ Logged("contract_reader")
                 /\ Logged("anomaly_detector")
                 /\ Logged("salary_breakdown") <=> Ok("contract_reader")
                 /\ Logged("compliance_mapper") <=> Ok("salary_breakdown")
                 /\ Logged("paystub_generator") <=>
                       (Ok("contract_reader") /\ Ok("salary_breakdown"))

\* A finalized run whose salary stage failed: the log holds the reader, the
\* salary stage and the anomaly detector only.
C5_SkippedStagesWitness ==
    /\ pc = "returned"
    /\ final_result # None
    /\ Failed("salary_breakdown")
    /\ Len(Record.agent_logs) = 3

NoSalaryData(ss) ==
    /\ ss.basic = None /\ ss.hra = None /\ ss.allowances = None
    /\ ss.special_allowance = None /\ ss.medical_allowance = None
    /\ ss.transport_allowance = None /\ ss.meal_allowance = None
    /\ ss.gross \in {None, Some(0)}

\* C7 (as stated): on a contract without salary figures the salary calculator
\* fails with an error, and the record has success=false, a non-empty error list
\* and no salary breakdown.
C7_NoSalaryDataFails ==
    (pc = "returned" /\ contract[1].readable
        /\ NoSalaryData(contract[1].data.salary_structure)) =>
        /\ Failed("salary_breakdown")
        /\ Record.success = FALSE
        /\ Record.errors # <<>>
        /\ Record.salary_data = None

\* ------------------------------------------------------------------ properties of the calculators

\* The (gross, esi) pairs of the finished calls on calc_input.
FinishedESI ==
    (IF agent_out # None
     THEN {[gross |-> agent_out[1].gross_salary, esi |-> agent_out[1].deductions.esi]}
     ELSE {})
    \cup (IF tool_out # None /\ tool_out[1].error = ""
          THEN {[gross |-> tool_out[1].gross_salary, esi |-> tool_out[1].deductions.esi]}
          ELSE {})

\* C8: every breakdown of the agent and of the tool has
\* net_salary = max(0, gross_salary - sum of its deductions), never negative.
C8_NetIsClampedDifference ==
    /\ agent_out # None =>
          LET b == agent_out[1]
              total == b.deductions.pf + b.deductions.esi + b.deductions.professional_tax
                       + b.deductions.tds + b.deductions.advance
                       + b.deductions.loan_deduction + b.deductions.other_deductions
          IN  /\ b.net_salary >= 0
              /\ b.net_salary = Max(0, b.gross_salary - total)
    /\ (tool_out # None /\ tool_out[1].error = "") =>
          LET t == tool_out[1]
              total == t.deductions.pf + t.deductions.esi + t.deductions.professional_tax
                       + t.deductions.tds
          IN  /\ t.net_salary >= 0
              /\ t.net_salary = Max(0, t.gross_salary - total)

\* A breakdown of the agent whose deductions exceed its gross salary, and a
\* result of the tool on the same contract.
C8_DeductionsExceedGrossWitness ==
    /\ agent_out # None
    /\ tool_out # None
    /\ agent_out[1].gross_salary > 0
    /\ agent_out[1].gross_salary < SumDeductions(agent_out[1].deductions)
    /\ agent_out[1].net_salary = 0

\* C9 (as stated): for every basic b > 0 the PF deduction equals min(0.12 b, 1800),
\* is non-decreasing in b and is 1800 from b = 15000 on.
C9_PFIsExactMinimum ==
    \A e \in FinishedPF :
        e.basic > 0 =>
            /\ e.pf * 100 = Min(12 * e.basic, PF_CAP * 100)
            /\ e.basic >= Rs(15000) => e.pf = PF_CAP
            /\ (earlier # None /\ earlier[1].basic > 0 /\ earlier[1].basic <= e.basic) =>
                  earlier[1].pf <= e.pf

\* C9 (amended): for every basic b > 0 the PF deduction is min(0.12 b, 1800)
\* rounded to 2 decimals, is non-decreasing in b and is 1800 from b = 15000 on.
C9_PFIsRoundedMinimum ==
    \A e \in FinishedPF :
        e.basic > 0 =>
            /\ IsRounded(e.pf, Min(12 * e.basic, PF_CAP * 100), 100)
            /\ e.basic >= Rs(15000) => e.pf = PF_CAP
            /\ (earlier # None /\ earlier[1].basic > 0 /\ earlier[1].basic <= e.basic) =>
                  earlier[1].pf <= e.pf

\* A call on a basic above 15000 with the capped PF, after a call on a smaller
\* basic whose 12% is not a whole number of paise and was rounded.
C9_CapAfterRoundedWitness ==
    /\ earlier # None
    /\ earlier[1].basic > 0
    /\ earlier[1].basic < Rs(15000)
    /\ earlier[1].pf * 100 # 12 * earlier[1].basic
    /\ earlier[1].pf < PF_CAP
    /\ \E e \in FinishedPF : e.basic > Rs(15000) /\ e.pf = PF_CAP

\* C10 (as stated): for every gross g the ESI deduction equals 0.0075 g when
\* g <= 21000 and 0 when g > 21000.
C10_ESIIsExactRate ==
    \A e \in FinishedESI :
        IF e.gross <= ESI_LIMIT THEN e.esi * 10000 = 75 * e.gross ELSE e.esi = 0

\* C10 (amended): for every gross g the ESI deduction equals 0.0075 g rounded to
\* 2 decimals when g <= 21000 and 0 when g > 21000.
C10_ESIIsRoundedRate ==
    \A e \in FinishedESI :
        IF e.gross <= ESI_LIMIT THEN IsRounded(e.esi, 75 * e.gross, 10000) ELSE e.esi = 0

\* The agent and the tool called on a gross of 20999: 0.0075 g is 157.4925 and
\* both return 157.49.
C10_RoundedBelowLimitWitness ==
    /\ agent_out # None
    /\ tool_out # None
    /\ FinishedESI = {[gross |-> Rs(20999), esi |-> 15749]}

\* C11 (as stated): every deduction of the agent's breakdown (pf, esi,
\* professional_tax, tds, advance, loan_deduction, other_deductions) is >= 0, for
\* zero and negative component values too.
C11_DeductionsNonNegative ==
    agent_out # None =>
        LET d == agent_out[1].deductions
        IN  /\ d.pf >= 0
            /\ d.esi >= 0
            /\ d.professional_tax >= 0
            /\ d.tds >= 0
            /\ d.advance >= 0
            /\ d.loan_deduction >= 0
            /\ d.other_deductions >= 0

\* ------------------------------------------------------------------ methods called on their own

\* The longest issues list and applied_rules list handed to
\* _calculate_confidence_score.
MaxIssues == 6

MaxRules == 6

\* A method is called on its own with the arguments args.
Call(method, args) ==
    /\ unit_call = None
    /\ unit_call' = Some([method |-> method, args |-> args])
    /\ unit_ret' = None
    /\ UNCHANGED calcVars
    /\ UNCHANGED flowVars
    /\ UNCHANGED <<batchVars, ragVars, pipeVars>>

\* The method under call is method and has not returned.
Calling(method) ==
    /\ unit_call # None
    /\ unit_call[1].method = method
    /\ unit_ret = None

\* The method under call returns value.
Return(value) ==
    /\ unit_ret' = Some(value)
    /\ UNCHANGED unit_call
    /\ UNCHANGED calcVars
    /\ UNCHANGED flowVars
    /\ UNCHANGED <<batchVars, ragVars, pipeVars>>

\* The method under call is method and it returned.
Called(method) ==
    /\ unit_call # None
    /\ unit_call[1].method = method
    /\ unit_ret # None

\* The caller takes the returned value.
UnitDone ==
    /\ unit_ret # None
    /\ unit_call' = None
    /\ unit_ret' = None
    /\ UNCHANGED calcVars
    /\ UNCHANGED flowVars
    /\ UNCHANGED <<batchVars, ragVars, pipeVars>>

CallConfidenceScore ==
    \E i \in 0..MaxIssues : \E r \in 0..MaxRules :
        Call("_calculate_confidence_score", [issues |-> i, applied_rules |-> r])

ReturnConfidenceScore ==
    /\ Calling("_calculate_confidence_score")
    /\ Return(CalculateConfidenceScore(unit_call[1].args.issues,
                                       unit_call[1].args.applied_rules))

\* C12: for every number of issues and of applied rules the compliance
\* confidence score is max(0.5, 0.9 - 0.1 issues) + min(0.1, 0.02 rules) clamped
\* at 1.0, and lies in [0.5, 1.0].
C12_ConfidenceInRange ==
    Called("_calculate_confidence_score") =>
        LET i == unit_call[1].args.issues
            r == unit_call[1].args.applied_rules
            floored == IF 90 - 10 * i < 50 THEN 50 ELSE 90 - 10 * i
            boost == IF 2 * r > 10 THEN 10 ELSE 2 * r
        IN  /\ unit_ret[1] >= 50
            /\ unit_ret[1] <= 100
            /\ unit_ret[1] = (IF floored + boost > 100 THEN 100 ELSE floored + boost)

\* A call with five issues, where the floor of 0.5 applies, and five applied
\* rules, where the boost is the full 0.1.
C12_FloorAndBoostWitness ==
    /\ Called("_calculate_confidence_score")
    /\ unit_call[1].args.issues = 5
    /\ unit_call[1].args.applied_rules = 5
    /\ unit_ret[1] = 60

\* The most anomalies of each severity in a list handed to
\* _determine_overall_status.
MaxLow == 1

MaxMedium == 6

MaxHigh == 3

MaxCritical == 1

\* A list of anomalies with the given number of each severity.
AnomalyList(low, medium, high, critical) ==
    [i \in 1..(low + medium + high + critical) |->
        Anomaly("calculation_error",
                IF i <= low THEN "LOW"
                ELSE IF i <= low + medium THEN "MEDIUM"
                ELSE IF i <= low + medium + high THEN "HIGH"
                ELSE "CRITICAL",
                "net_salary")]

AnomalyLists ==
    {AnomalyList(l, m, h, c) :
        l \in 0..MaxLow, m \in 0..MaxMedium, h \in 0..MaxHigh, c \in 0..MaxCritical}

CallBuildReport ==
    \E anomalies \in AnomalyLists : Call("_determine_overall_status", anomalies)

ReturnBuildReport ==
    /\ Calling("_determine_overall_status")
    /\ Return(BuildReport(unit_call[1].args))

\* C13: the report's overall status is NORMAL iff the anomaly list is empty,
\* CRITICAL if the list holds a CRITICAL anomaly, more than 2 HIGH anomalies or
\* more than 5 anomalies, REVIEW_REQUIRED otherwise; has_anomalies is true
\* exactly when the status is not NORMAL.
C13_OverallStatusRule ==
    Called("_determine_overall_status") =>
        LET anomalies == unit_call[1].args
            report == unit_ret[1]
            critical == \E i \in DOMAIN anomalies : anomalies[i].severity = "CRITICAL"
            high == Cardinality({i \in DOMAIN anomalies : anomalies[i].severity = "HIGH"})
            severe == critical \/ high > 2 \/ Len(anomalies) > 5
        IN  /\ report.overall_status = "NORMAL" <=> anomalies = <<>>
            /\ (anomalies # <<>> /\ severe) => report.overall_status = "CRITICAL"
            /\ (anomalies # <<>> /\ ~severe) => report.overall_status = "REVIEW_REQUIRED"
            /\ report.has_anomalies <=> report.overall_status # "NORMAL"

\* A list of six MEDIUM anomalies: no CRITICAL one, no HIGH one, and the status is
\* CRITICAL by the total alone.
C13_CriticalByTotalWitness ==
    /\ Called("_determine_overall_status")
    /\ Len(unit_call[1].args) = 6
    /\ \A i \in DOMAIN unit_call[1].args : unit_call[1].args[i].severity = "MEDIUM"
    /\ unit_ret[1].overall_status = "CRITICAL"
    /\ unit_ret[1].has_anomalies

\* The contracts whose data, breakdown and validation are handed to the methods
\* called on their own.
UnitContracts ==
    {ContractData(Some("EMP001"), loc, ss) :
        loc \in {None, Some("Chennai, Tamil Nadu")},
        ss \in {SalaryStructure(None, None, None, None, Some(0)),
                SalaryStructure(None, None, None, None, Some(Rs(20000))),
                SalaryStructure(Some(Rs(8000)), None, None, None, None),
                SalaryStructure(Some(Rs(50000)), Some(Rs(20000)), Some(Rs(15000)),
                                None, None)}}

UnitBreakdowns == UNION {SalaryProcess(c) : c \in UnitContracts}

UnitValidations == UNION {ComplianceProcess(sb) : sb \in UnitBreakdowns}

\* Breakdowns whose PF, ESI and TDS are all off, and their validations.
WrongBreakdowns ==
    {[sb EXCEPT !.deductions.pf = 0, !.deductions.esi = Rs(900),
                !.deductions.tds = sb.gross_salary + Rs(1)] : sb \in UnitBreakdowns}

WrongValidations == UNION {ComplianceProcess(sb) : sb \in WrongBreakdowns}

\* The dicts handed to AnomalyDetectorAgent._process: each of the three entries is
\* available or None.
AnomalyInputs ==
    {[contract_data |-> cd, salary_data |-> sd, compliance_data |-> co] :
        cd \in {None} \cup {Some(c) : c \in UnitContracts},
        sd \in {None} \cup {Some(sb) : sb \in UnitBreakdowns},
        co \in {None} \cup {Some(v) : v \in UnitValidations \cup WrongValidations}}

CallAnomalyProcess ==
    \E data \in AnomalyInputs : Call("AnomalyDetectorAgent._process", data)

ReturnAnomalyProcess ==
    /\ Calling("AnomalyDetectorAgent._process")
    /\ Return(AnomalyProcess(unit_call[1].args))

\* C14 (as stated): the anomaly detector returns a report, never an error,
\* whichever of contract data, salary breakdown and compliance result are
\* available, an absent breakdown and a breakdown of gross 0 included; with no
\* input at all the report has no anomalies and status NORMAL.
C14_DetectorNeverFails ==
    Called("AnomalyDetectorAgent._process") =>
        /\ unit_ret[1].ok
        /\ (/\ unit_call[1].args.contract_data = None
            /\ unit_call[1].args.salary_data = None
            /\ unit_call[1].args.compliance_data = None) =>
               /\ unit_ret[1].value # None
               /\ unit_ret[1].value[1].anomalies = <<>>
               /\ unit_ret[1].value[1].overall_status = "NORMAL"

\* Breakdowns whose deductions are not the ones the calculator computes.
AlteredBreakdowns ==
    UNION {{[sb EXCEPT !.deductions.pf = sb.deductions.pf + Rs(500)],
            [sb EXCEPT !.deductions.esi = sb.deductions.esi + Rs(300)],
            [sb EXCEPT !.deductions.tds = sb.gross_salary],
            [sb EXCEPT !.deductions.pf = 0, !.deductions.esi = Rs(900),
                       !.deductions.tds = sb.gross_salary + Rs(1)]} :
           sb \in UnitBreakdowns}

\* Breakdowns with one deduction moved to a tolerance of the validator and just
\* beyond it.
EdgeBreakdowns ==
    UNION {{[sb EXCEPT !.deductions.pf = sb.deductions.pf + Rs(1) + d],
            [sb EXCEPT !.deductions.esi = sb.deductions.esi + Rs(1) + d],
            [sb EXCEPT !.deductions.esi = sb.deductions.esi + 50],
            [sb EXCEPT !.deductions.professional_tax = sb.deductions.professional_tax + Rs(5) + d],
            [sb EXCEPT !.deductions.tds = (sb.gross_salary * 3) \div 10 + d],
            [sb EXCEPT !.deductions.tds = sb.deductions.tds + (sb.net_salary \div 5) + 1]} :
           sb \in UnitBreakdowns, d \in {0, 1}}

CallComplianceProcess ==
    \E sb \in UnitBreakdowns \cup AlteredBreakdowns \cup EdgeBreakdowns :
        Call("ComplianceMapperAgent._process", sb)

ReturnComplianceProcess ==
    /\ Calling("ComplianceMapperAgent._process")
    /\ \E v \in ComplianceProcess(unit_call[1].args) : Return(v)

CallToolValidateCompliance ==
    \E sd \in UnitBreakdowns \cup AlteredBreakdowns \cup EdgeBreakdowns :
        Call("validate_compliance_tool", sd)

ReturnToolValidateCompliance ==
    /\ Calling("validate_compliance_tool")
    /\ Return(ToolValidateCompliance(unit_call[1].args))

\* _detect_compliance_anomalies on a compliance result, or on None.
CallDetectComplianceAnomalies ==
    \E co \in {None} \cup {Some(v) : v \in UnitValidations \cup WrongValidations} :
        Call("_detect_compliance_anomalies", co)

ReturnDetectComplianceAnomalies ==
    /\ Calling("_detect_compliance_anomalies")
    /\ Return(DetectComplianceAnomalies(unit_call[1].args))

\* The combined data handed to detect_anomalies_tool: a contract, its breakdown
\* and the tool's validation of that breakdown or of a wrong one.
ToolAnomalyInputs ==
    UNION {{[contract |-> c, salary |-> sb, compliance |-> ToolValidateCompliance(x)] :
              x \in {sb, [sb EXCEPT !.deductions.esi = Rs(900),
                                    !.deductions.tds = sb.gross_salary + Rs(1)]}} :
           c \in UnitContracts, sb \in UnitBreakdowns}

CallToolDetectAnomalies ==
    \E cd \in ToolAnomalyInputs : Call("detect_anomalies_tool", cd)

ReturnToolDetectAnomalies ==
    /\ Calling("detect_anomalies_tool")
    /\ Return(ToolDetectAnomalies(unit_call[1].args))

\* ------------------------------------------------------------------ ContractReaderAgent._structure_contract_data

\* The salary figures of SalaryStructure, and the four the conversion divides.
SalaryFigures ==
    {"basic", "hra", "allowances", "special_allowance", "medical_allowance",
     "transport_allowance", "meal_allowance", "gross", "variable_pay", "bonus"}

ConvertedFigures == {"basic", "hra", "allowances", "gross"}

\* value / 12; the amounts handed in are multiples of 12 paise.
Div12(value) == value \div 12

\* The annual-to-monthly block of _structure_contract_data on the
\* SalaryStructure built from the parsed dict: a figure is divided when the
\* flag is set and the figure is neither None nor 0.
ToMonthly(salary_structure, converted) ==
    IF salary_structure.is_annual
    THEN [f \in DOMAIN salary_structure |->
            IF f = "is_annual" THEN FALSE
            ELSE IF f \in converted /\ Truthy(salary_structure[f])
            THEN Some(Div12(salary_structure[f][1]))
            ELSE salary_structure[f]]
    ELSE salary_structure

StructureSalary(salary_structure) == ToMonthly(salary_structure, ConvertedFigures)

\* The parsed salary structures handed in: yearly amounts, each present or not.
ParsedSalaries ==
    {[basic |-> b, hra |-> h, allowances |-> a, special_allowance |-> sp,
      medical_allowance |-> m, transport_allowance |-> m, meal_allowance |-> m,
      gross |-> g, variable_pay |-> v, bonus |-> bo, is_annual |-> flag] :
        b \in {None, Some(0), Some(Rs(600000))}, h \in {None, Some(Rs(240000))},
        a \in {None, Some(Rs(120000))}, sp \in {None, Some(Rs(180000))},
        m \in {None, Some(Rs(15000))}, g \in {None, Some(Rs(1200000))},
        v \in {None, Some(Rs(120000))}, bo \in {None, Some(Rs(60000))},
        flag \in BOOLEAN}

CallStructureSalary ==
    \E parsed \in ParsedSalaries : Call("_structure_contract_data", parsed)

ReturnStructureSalary ==
    /\ Calling("_structure_contract_data")
    /\ Return(StructureSalary(unit_call[1].args))

\* _detect_calculation_anomalies on a breakdown SalaryBreakdownAgent produced.
CallDetectCalculationAnomalies ==
    \E c \in CalcContracts \cup UnitContracts : \E sb \in SalaryProcess(c) :
        Call("_detect_calculation_anomalies", sb)

ReturnDetectCalculationAnomalies ==
    /\ Calling("_detect_calculation_anomalies")
    /\ Return(DetectCalculationAnomalies(unit_call[1].args))

\* The methods called on their own.
UnitNext ==
    \/ CallDetectCalculationAnomalies
    \/ ReturnDetectCalculationAnomalies
    \/ CallStructureSalary
    \/ ReturnStructureSalary
    \/ CallDetectComplianceAnomalies
    \/ ReturnDetectComplianceAnomalies
    \/ CallToolDetectAnomalies
    \/ ReturnToolDetectAnomalies
    \/ CallToolValidateCompliance
    \/ ReturnToolValidateCompliance
    \/ CallConfidenceScore
    \/ ReturnConfidenceScore
    \/ CallBuildReport
    \/ ReturnBuildReport
    \/ CallAnomalyProcess
    \/ ReturnAnomalyProcess
    \/ CallComplianceProcess
    \/ ReturnComplianceProcess
    \/ UnitDone

UnitSpec == CalcInit /\ [][UnitNext]_vars

\* ------------------------------------------------------------------ batch_process_contracts

\* The longest contract_paths list handed to batch_process_contracts.
MaxBatch == 2

\* The contracts behind the paths of a batch: one unreadable file, two readable
\* contracts of different employees and one readable contract without employee id.
BatchContracts ==
    {[readable |-> FALSE,
      data |-> ContractData(Some("EMP003"), None,
                            SalaryStructure(None, None, None, None, Some(Rs(20000))))],
     [readable |-> TRUE,
      data |-> ContractData(Some("EMP001"), None,
                            SalaryStructure(None, None, None, None, Some(Rs(20000))))],
     [readable |-> TRUE,
      data |-> ContractData(Some("EMP002"), Some("Chennai, Tamil Nadu"),
                            SalaryStructure(Some(Rs(50000)), Some(Rs(20000)),
                                            Some(Rs(15000)), None, None))],
     [readable |-> TRUE,
      data |-> ContractData(None, None,
                            SalaryStructure(Some(Rs(8000)), None, None, None, None))]}

PrependResult(list, record) == <<record>> \o list

\* results.append(result)
AppendResult(list, record) == Append(list, record)

\* batch_process_contracts is called: a workflow is created and the loop entered.
BatchProcessContracts ==
    /\ batch_pc = "idle"
    /\ pc = "idle"
    /\ \E n \in 0..MaxBatch : \E paths \in [1..n -> BatchContracts] :
          contract_paths' = paths
    /\ batch_results' = <<>>
    /\ batch_pc' = "loop"
    /\ UNCHANGED <<calcVars, flowVars, unitVars, ragVars, pipeVars>>

\* The loop body up to app.invoke: process_contract_sync on the next path.
BatchNextContract ==
    /\ batch_pc = "loop"
    /\ pc = "idle"
    /\ Len(batch_results) < Len(contract_paths)
    /\ StartRun(contract_paths[Len(batch_results) + 1])
    /\ UNCHANGED otherVars

\* The loop body after process_contract_sync returned.
BatchAppendResult ==
    /\ batch_pc = "loop"
    /\ pc = "returned"
    /\ batch_results' = AppendResult(batch_results, result[1])
    /\ pc' = "idle"
    /\ UNCHANGED <<batch_pc, contract_paths>>
    /\ UNCHANGED <<contract, employee_id, current_step, agent_results, final_result,
                   errors, result>>
    /\ UNCHANGED <<calcVars, unitVars, ragVars, pipeVars>>

\* The loop is over: return batch_results.
BatchReturn ==
    /\ batch_pc = "loop"
    /\ pc = "idle"
    /\ Len(batch_results) = Len(contract_paths)
    /\ batch_pc' = "returned"
    /\ UNCHANGED <<contract_paths, batch_results>>
    /\ UNCHANGED <<calcVars, flowVars, unitVars, ragVars, pipeVars>>

BatchNext ==
    \/ BatchProcessContracts
    \/ BatchNextContract
    \/ ContractReaderNode
    \/ SalaryBreakdownNode
    \/ ComplianceMapperNode
    \/ AnomalyDetectorNode
    \/ PaystubGeneratorNode
    \/ FinalizeResultNode
    \/ ProcessContractReturn
    \/ BatchAppendResult
    \/ BatchReturn

BatchSpec == Init /\ [][BatchNext]_vars

\* The labels of the entries of an error list.
Labels(errs) == [k \in DOMAIN errs |-> errs[k][1]]

\* C15: batch_process_contracts over N paths returns N records, record i being
\* the one of path i; a failing contract neither stops nor alters the others, and
\* no record holds errors or stage outcomes of another contract.
C15_BatchRecordsIndependent ==
        /\ Len(batch_results) <= Len(contract_paths)
        /\ batch_pc = "returned" => Len(batch_results) = Len(contract_paths)
        /\ \A i \in DOMAIN batch_results :
              LET f == contract_paths[i]
                  r == batch_results[i]
                  id == f.data.employee_info.employee_id
              IN  /\ r.employee_id = (IF f.readable /\ id # None /\ r.agent_logs # <<>>
                                      THEN id[1] ELSE "unknown")
                  /\ r.contract_data = (IF f.readable /\ id # None THEN Some(f.data) ELSE None)
                  /\ r.success => (f.readable /\ id # None)
                  /\ (f.readable /\ id # None) => r.agent_logs # <<>>
                  /\ f.readable <=>
                        ~\E k \in DOMAIN r.errors : r.errors[k][1] = "Contract Reader failed"
                  /\ (id # None /\ f.readable) <=>
                        ~\E k \in DOMAIN r.errors : r.errors[k][1] = "Failed to finalize result"
                  /\ \A k \in DOMAIN r.errors : \A l \in DOMAIN r.errors :
                        r.errors[k][1] = r.errors[l][1] => k = l
                  /\ \A k \in DOMAIN r.agent_logs : \A l \in DOMAIN r.agent_logs :
                        r.agent_logs[k].agent = r.agent_logs[l].agent => k = l
                  /\ r.salary_data # None =>
                        r.salary_data[1] \in SalaryProcess(f.data)

\* A batch of two paths, the first unreadable and the second a contract that is
\* processed successfully.
C15_FailureThenSuccessWitness ==
    /\ batch_pc = "returned"
    /\ Len(contract_paths) = 2
    /\ Len(batch_results) = 2
    /\ ~contract_paths[1].readable
    /\ ~batch_results[1].success
    /\ batch_results[2].success
    /\ batch_results[2].employee_id = "EMP002"

\* ------------------------------------------------------------------ PayrollRAGSystem: the document store

\* The doc_id, content and doc_type of a document handed to add_document.
Document(doc_id, content, doc_type) ==
    [doc_id |-> doc_id, content |-> content, doc_type |-> doc_type]

\* The rules _initialize_default_rules adds, in its order.
DefaultRules ==
    << Document("pf_rule_2024", "default", "pf_rule"),
       Document("esi_rule_2024", "default", "esi_rule"),
       Document("tds_rule_2024", "default", "tax_rule"),
       Document("professional_tax_2024", "default", "state_rule"),
       Document("gratuity_rule_2024", "default", "general_compliance") >>

\* The documents a caller hands to add_document: the id of a default rule or an
\* id of its own, with a new text, for a known or an unknown doc_type.
CallerDocuments ==
    { Document(id, content, type) :
        id \in {"pf_rule_2024", "custom_rule"},
        content \in {"revised", "second revision"},
        type \in {"pf_rule", "circular"} }

\* The collection add_document chooses for a doc_type: the doc_type with an "s"
\* appended unless it ends in one, or general_compliance when there is no such
\* collection.
CollectionOf(doc_type) ==
    LET collection_name ==
            IF doc_type = "general_compliance" THEN doc_type
            ELSE IF doc_type = "pf_rule" THEN "pf_rules"
            ELSE IF doc_type = "esi_rule" THEN "esi_rules"
            ELSE IF doc_type = "tax_rule" THEN "tax_rules"
            ELSE IF doc_type = "state_rule" THEN "state_rules"
            ELSE doc_type
    IN  IF collection_name \in Collections THEN collection_name
        ELSE "general_compliance"

\* The ids stored in a collection.
StoredIds(collection) == { d.doc_id : d \in collection }

\* How collection.add treats an id the collection already holds: the release
\* of the library in use either raises or ignores the addition.
OnExistingId == {"raises", "ignored"}

\* collection.add: the collection afterwards, and whether it raised.
CollectionAdd(collection, doc, on_existing) ==
    IF doc.doc_id \in StoredIds(collection)
    THEN [ collection |-> collection, raised |-> on_existing = "raises" ]
    ELSE [ collection |-> collection
                            \cup {[doc_id |-> doc.doc_id, content |-> doc.content]},
           raised |-> FALSE ]

\* add_document: the store afterwards and the record of the call. Whatever is
\* raised inside (by embed_query or by collection.add) is caught and logged, so
\* the call returns None to its caller.
AddDocument(store, doc, embed_fails, on_existing) ==
    LET name == CollectionOf(doc.doc_type)
        existed == doc.doc_id \in StoredIds(store[name])
        added == CollectionAdd(store[name], doc, on_existing)
        logged == embed_fails \/ added.raised
    IN  [ store |-> IF embed_fails THEN store
                    ELSE [store EXCEPT ![name] = added.collection],
          call |-> [ doc |-> doc, collection |-> name, existed |-> existed,
                     before |-> store[name], logged_error |-> logged,
                     outcome |-> Returned(None) ] ]

\* add_document for each document of a list in turn; `failing` are the
\* positions whose embed_query raises.
RECURSIVE AddDocuments(_, _, _, _, _)
AddDocuments(store, docs, k, failing, on_existing) ==
    IF k > Len(docs) THEN [store |-> store, calls |-> <<>>]
    ELSE LET one == AddDocument(store, docs[k], k \in failing, on_existing)
             rest == AddDocuments(one.store, docs, k + 1, failing, on_existing)
         IN  [store |-> rest.store, calls |-> <<one.call>> \o rest.calls]

\* The default rules whose embed_query raises during one construction: none,
\* the first, or all of them (the embedding service is unreachable).
EmbedFailures == { {}, {1}, 1..Len(DefaultRules) }

\* PayrollRAGSystem(persist_directory): the collections are fetched or created
\* and every default rule is added again over what the directory holds.
RagConstruct ==
    /\ \E failing \in EmbedFailures, on_existing \in OnExistingId :
         LET done == AddDocuments(rag_store, DefaultRules, 1, failing, on_existing)
         IN  /\ rag_store' = done.store
             /\ rag_last' = done.calls
    /\ UNCHANGED <<calcVars, flowVars, unitVars, batchVars, pipeVars, retrieval>>

\* rag.add_document(doc_data) by a caller.
RagAddDocument ==
    /\ \E doc \in CallerDocuments, embed_fails \in BOOLEAN, on_existing \in OnExistingId :
         LET done == AddDocument(rag_store, doc, embed_fails, on_existing)
         IN  /\ rag_store' = done.store
             /\ rag_last' = <<done.call>>
    /\ UNCHANGED <<calcVars, flowVars, unitVars, batchVars, pipeVars, retrieval>>

RagNext ==
    \/ RagConstruct
    \/ RagAddDocument

RagSpec == Init /\ [][RagNext]_vars

\* C16 (first half and second half together): every add_document call whose
\* doc_id was already stored in its collection ends in an error reported to the
\* caller, and leaves that collection as it was.
C16_ExistingIdReportedAndKept ==
    \A k \in DOMAIN rag_last :
        rag_last[k].existed =>
            /\ ~rag_last[k].outcome.ok
            /\ \A d \in rag_last[k].before : d \in rag_store[rag_last[k].collection]

\* What the code does keep: a stored document is never replaced or removed,
\* and a collection never holds two documents under one id.
C16_StoredDocumentsKept ==
    [][\A c \in Collections : rag_store[c] \subseteq rag_store'[c]]_vars

C16_OneDocumentPerId ==
    \A c \in Collections : \A d, e \in rag_store[c] : d.doc_id = e.doc_id => d = e

\* A caller re-added a stored id with a new text and got None back.
C16_ReAddedWitness ==
    \E k \in DOMAIN rag_last :
        /\ rag_last[k].existed
        /\ rag_last[k].doc.content # "default"
        /\ rag_last[k].outcome.ok

\* ------------------------------------------------------------------ rule retrieval in the compliance stage

\* C17 (as stated): when the rule retrieval of the compliance stage failed (the
\* search raised, or get_all_applicable_rules itself failed), the compliance
\* stage does not fail on that account, the returned record is not a failure on
\* that account, and no error entry is added for it: the validator went on with
\* its built-in values.
C17_RetrievalFailureHarmless ==
    (Ran("compliance_mapper") /\ retrieval \in {"search failed", "rules failed"}) =>
        /\ Failed("compliance_mapper") => Stage("compliance_mapper")[1] = Execute("ComplianceMapperAgent", Fault)
        /\ ~HasError(errors, <<"Compliance Mapper failed", "'pf_rules'">>)
        /\ (pc = "returned" /\ final_result # None) => Record.success

\* What the code does under a failed search alone: the validation is the one of
\* a working retrieval.
C17_SearchFailureHarmless ==
    (Ran("compliance_mapper") /\ retrieval = "search failed"
        /\ ~Failed("compliance_mapper")) =>
        Stage("compliance_mapper")[1].output[1]
            \in ComplianceProcess(Stage("salary_breakdown")[1].output[1])

\* A run whose compliance stage failed on the empty rules and whose record was
\* still returned as a success.
C17_RulesFailedWitness ==
    /\ pc = "returned"
    /\ retrieval = "rules failed"
    /\ Failed("compliance_mapper")
    /\ HasError(Record.errors, <<"Compliance Mapper failed", "'pf_rules'">>)
    /\ Record.success

\* ------------------------------------------------------------------ the breakdown of a declared gross

\* The contract of the current call declares a gross, and its basic, HRA and
\* general allowances sum to zero.
GrossOnly ==
    /\ calc_input # None
    /\ Truthy(calc_input[1].salary_structure.gross)
    /\ OrZero(calc_input[1].salary_structure.basic)
       + OrZero(calc_input[1].salary_structure.hra)
       + OrZero(calc_input[1].salary_structure.allowances) = 0

\* C18 (as stated): when a gross is declared and basic + HRA + allowances sum to
\* zero, the agent's breakdown has basic = 40% of the declared gross, HRA = 50%
\* of basic and allowances = gross - basic - HRA, so that its gross is the
\* declared gross; a gross of 20000 gives basic 8000, HRA 4000 and ESI 150.00.
C18_GrossSplitKeepsDeclaredGross ==
    (GrossOnly /\ agent_out # None) =>
        LET b == agent_out[1]
            gross == calc_input[1].salary_structure.gross[1]
        IN  /\ b.basic_salary * 10 = gross * 4
            /\ b.hra * 2 = b.basic_salary
            /\ b.allowances = gross - b.basic_salary - b.hra
            /\ b.gross_salary = gross
            /\ gross = Rs(20000) =>
                  /\ b.basic_salary = Rs(8000)
                  /\ b.hra = Rs(4000)
                  /\ b.deductions.esi = 15000

\* What the code does keep: basic and HRA are split from the declared gross, and
\* the special, medical, transport and meal allowances come on top of the rest,
\* in the allowances and in the gross of the breakdown.
C18_GrossSplitPlusOtherAllowances ==
    (GrossOnly /\ agent_out # None) =>
        LET b == agent_out[1]
            ss == calc_input[1].salary_structure
            others == OrZero(ss.special_allowance) + OrZero(ss.medical_allowance)
                      + OrZero(ss.transport_allowance) + OrZero(ss.meal_allowance)
        IN  /\ b.basic_salary * 10 = ss.gross[1] * 4
            /\ b.hra * 2 = b.basic_salary
            /\ b.allowances = ss.gross[1] - b.basic_salary - b.hra + others
            /\ b.gross_salary = ss.gross[1] + others

\* A breakdown of a declared gross of 20000 with a special allowance: its gross
\* is above the declared one.
C18_SpecialAllowanceWitness ==
    /\ GrossOnly
    /\ agent_out # None
    /\ calc_input[1].salary_structure.gross = Some(Rs(20000))
    /\ calc_input[1].salary_structure.special_allowance # None
    /\ agent_out[1].gross_salary > Rs(20000)

\* ------------------------------------------------------------------ MockPayrollProcessor (simple_payroll_app.py)

\* The longest contract text handed to the mock processor, in lines.
MaxLines == 2

\* The labels _extract_contract_data looks for in a line.
MockSalaryLabels == {"Basic Salary:", "HRA:", "Special Allowance:"}

\* A line of a contract text: the label it holds ("" for none of them), the
\* text after its first colon, and the whitespace-separated words after its
\* first rupee sign (None when the line has no rupee sign).
ContractLine(label, colon_text, rupee_words) ==
    [label |-> label, colon_text |-> colon_text, rupee_words |-> rupee_words]

ContractLines ==
    { ContractLine("Employee Name:", "Test Employee", None),
      ContractLine("Employee ID:", "TEST001", None),
      ContractLine("", "", None) }
    \cup { ContractLine(label, "", words) :
             label \in MockSalaryLabels,
             words \in { None, Some(<<>>), Some(<<"50,000", "per", "month">>),
                         Some(<<"TBD">>) } }

RECURSIVE TextsUpTo(_)
TextsUpTo(n) ==
    IF n = 0 THEN {<<>>}
    ELSE TextsUpTo(n - 1)
         \cup { Append(t, l) : t \in { u \in TextsUpTo(n - 1) : Len(u) = n - 1 },
                               l \in ContractLines }

\* The contract files: a path that cannot be opened, or a text.
ContractFiles ==
    { [readable |-> FALSE, lines |-> <<>>] }
    \cup { [readable |-> TRUE, lines |-> t] : t \in TextsUpTo(MaxLines) }

\* float(word.replace(',', '')): the amount, or None for a ValueError.
FloatOf(word) ==
    IF word = "50,000" THEN Some(Rs(50000)) ELSE None

\* float(line.split(rupee)[1].split()[0].replace(',', '')) on a line.
ParseAmount(line) ==
    IF line.rupee_words = None THEN Raised("IndexError")
    ELSE IF line.rupee_words[1] = <<>> THEN Raised("IndexError")
    ELSE IF FloatOf(line.rupee_words[1][1]) = None THEN Raised("ValueError")
    ELSE Returned(FloatOf(line.rupee_words[1][1])[1])

\* The loop of _extract_contract_data from line k on.
RECURSIVE ExtractFrom(_, _, _, _)
ExtractFrom(lines, k, employee_info, salary_structure) ==
    IF k > Len(lines)
    THEN Returned([employee_info |-> employee_info,
                   salary_structure |-> salary_structure])
    ELSE LET line == lines[k]
         IN  IF line.label = "Employee Name:"
             THEN ExtractFrom(lines, k + 1,
                     [employee_info EXCEPT !.name = Some(line.colon_text)],
                     salary_structure)
             ELSE IF line.label = "Employee ID:"
             THEN ExtractFrom(lines, k + 1,
                     [employee_info EXCEPT !.id = Some(line.colon_text)],
                     salary_structure)
             ELSE IF line.label \in MockSalaryLabels
             THEN LET amount == ParseAmount(line)
                      key == IF line.label = "Basic Salary:" THEN "basic"
                             ELSE IF line.label = "HRA:" THEN "hra"
                             ELSE "special_allowance"
                  IN  IF ~amount.ok THEN amount
                      ELSE ExtractFrom(lines, k + 1, employee_info,
                              [salary_structure EXCEPT ![key] = amount.value])
             ELSE ExtractFrom(lines, k + 1, employee_info, salary_structure)

\* MockPayrollProcessor._extract_contract_data
ExtractContractData(lines) ==
    ExtractFrom(lines, 1, [name |-> None, id |-> None],
                [basic |-> None, hra |-> None, special_allowance |-> None])

\* MockPayrollProcessor._calculate_salary_breakdown: fixed figures, whatever
\* the text.
MockSalaryBreakdown ==
    LET basic == Rs(50000)
        hra == Rs(20000)
        special_allowance == Rs(15000)
        gross_salary == basic + hra + special_allowance + Rs(1250) + Rs(1600) + Rs(2200)
        pf == Min((basic * 12) \div 100, Rs(15000))
        esi == IF gross_salary <= Rs(21000) THEN (gross_salary * 175) \div 10000 ELSE 0
        professional_tax == Rs(200)
        tds == (gross_salary * 5) \div 100
        total_deductions == pf + esi + professional_tax + tds
    IN  [gross_salary |-> gross_salary, basic_salary |-> basic, hra |-> hra,
         allowances |-> special_allowance + Rs(1250) + Rs(1600) + Rs(2200),
         deductions |-> [pf |-> pf, esi |-> esi, professional_tax |-> professional_tax,
                         tds |-> tds, total |-> total_deductions],
         net_salary |-> gross_salary - total_deductions,
         annual_gross |-> gross_salary * 12,
         annual_net |-> (gross_salary - total_deductions) * 12]

\* MockPayrollProcessor._validate_compliance
MockCompliance ==
    [compliance_status |-> "COMPLIANT", issues |-> <<>>, confidence_score |-> 95]

\* MockPayrollProcessor._detect_anomalies
MockAnomalies ==
    [has_anomalies |-> FALSE, anomalies |-> <<>>, overall_status |-> "NORMAL",
     confidence_score |-> 98]

\* MockPayrollProcessor._generate_paystub
MockPaystub ==
    [employee_info |-> [name |-> "John Doe", id |-> "EMP001"],
     salary_breakdown |-> MockSalaryBreakdown, pay_period |-> "January 2024"]

\* MockPayrollProcessor.process_contract: the dict it returns, or the exception
\* that leaves it (none of its steps is inside a try).
MockProcessContract(file) ==
    IF ~file.readable THEN Raised("FileNotFoundError")
    ELSE LET contract_data == ExtractContractData(file.lines)
         IN  IF ~contract_data.ok THEN contract_data
             ELSE Returned([success |-> TRUE, employee_id |-> "EMP001",
                            contract_data |-> contract_data.value[1],
                            salary_data |-> MockSalaryBreakdown,
                            compliance_data |-> MockCompliance,
                            anomalies_data |-> MockAnomalies,
                            paystub_data |-> MockPaystub])

CallMockProcessContract ==
    \E file \in ContractFiles : Call("MockPayrollProcessor.process_contract", file)

ReturnMockProcessContract ==
    /\ Calling("MockPayrollProcessor.process_contract")
    /\ Return(MockProcessContract(unit_call[1].args))

MockNext ==
    \/ CallMockProcessContract
    \/ ReturnMockProcessContract
    \/ UnitDone

MockSpec == Init /\ [][MockNext]_vars

\* The dict returned has the content the mock processor promises.
MockResultAsPromised(r) ==
    /\ r.success = TRUE
    /\ r.employee_id = "EMP001"
    /\ {"contract_data", "salary_data", "compliance_data", "anomalies_data",
        "paystub_data"} \subseteq DOMAIN r
    /\ 0 < r.salary_data.net_salary
    /\ r.salary_data.net_salary < r.salary_data.gross_salary
    /\ r.compliance_data.compliance_status = "COMPLIANT"
    /\ r.anomalies_data.has_anomalies = FALSE

\* C19 (as stated): for every contract text file that can be read,
\* process_contract returns a dict with success=True, employee_id 'EMP001', the
\* sections contract_data, salary_data, compliance_data, anomalies_data and
\* paystub_data, 0 < net_salary < gross_salary, the status COMPLIANT and
\* has_anomalies False.
C19_MockSucceedsOnAnyText ==
    (Called("MockPayrollProcessor.process_contract") /\ unit_call[1].args.readable) =>
        /\ unit_ret[1].ok
        /\ MockResultAsPromised(unit_ret[1].value[1])

\* What the code does keep: whenever process_contract returns, the dict is as
\* promised; and it returns exactly when the file can be read and every line
\* with a salary label has a number right after a rupee sign.
C19_MockResultWhenReturned ==
    Called("MockPayrollProcessor.process_contract") =>
        LET file == unit_call[1].args
            parsed == \A k \in DOMAIN file.lines :
                         file.lines[k].label \in MockSalaryLabels =>
                            /\ file.lines[k].rupee_words # None
                            /\ file.lines[k].rupee_words[1] # <<>>
                            /\ FloatOf(file.lines[k].rupee_words[1][1]) # None
        IN  /\ unit_ret[1].ok <=> (file.readable /\ parsed)
            /\ unit_ret[1].ok => MockResultAsPromised(unit_ret[1].value[1])

\* A readable text whose salary line has no rupee sign: the call ended in an
\* exception.
C19_NoRupeeSignWitness ==
    /\ Called("MockPayrollProcessor.process_contract")
    /\ unit_call[1].args.readable
    /\ \E k \in DOMAIN unit_call[1].args.lines :
          /\ unit_call[1].args.lines[k].label = "Basic Salary:"
          /\ unit_call[1].args.lines[k].rupee_words = None
    /\ ~unit_ret[1].ok

\* ------------------------------------------------------------------ the validators' tolerances

\* The validation v holds the issue text, and the recommendation text.
HasIssue(v, text) == \E i \in DOMAIN v.issues : v.issues[i] = text

HasRecommendation(v, text) == \E i \in DOMAIN v.recommendations : v.recommendations[i] = text

\* The expected figures the validator recomputes from a breakdown, in paise
\* times the denominator given.
ExpectedPF100(sb) == Min(sb.basic_salary * 12, PF_CAP * 100)

ExpectedESI10000(sb) == IF sb.gross_salary <= ESI_LIMIT THEN sb.gross_salary * 75 ELSE 0

ExpectedPT(sb) == RagProfessionalTax("Karnataka", sb.gross_salary)

ComplianceAnomalies(anomalies) ==
    {i \in DOMAIN anomalies :
        anomalies[i].type = "compliance_issue" \/ anomalies[i].affected_field = "compliance"}

\* C22 (as stated): when the compliance result's status is NON_COMPLIANT the
\* anomaly detector emits one HIGH anomaly for each compliance issue, and under
\* any other status none from the compliance issues; for the agent's detector
\* and for detect_anomalies_tool.
C22_OneHighAnomalyPerIssue ==
    /\ (Called("AnomalyDetectorAgent._process") /\ unit_call[1].args.compliance_data # None) =>
          LET co == unit_call[1].args.compliance_data[1]
          IN  /\ unit_ret[1].ok
              /\ LET found == unit_ret[1].value[1].anomalies
                 IN  /\ Cardinality(ComplianceAnomalies(found))
                          = (IF co.compliance_status = "NON_COMPLIANT"
                             THEN Len(co.issues) ELSE 0)
                     /\ \A i \in ComplianceAnomalies(found) : found[i].severity = "HIGH"
    /\ Called("detect_anomalies_tool") =>
          LET co == unit_call[1].args.compliance
              found == unit_ret[1].anomalies
          IN  /\ Cardinality(ComplianceAnomalies(found))
                   = (IF co.compliance_status = "NON_COMPLIANT" THEN Len(co.issues) ELSE 0)
              /\ \A i \in ComplianceAnomalies(found) : found[i].severity = "HIGH"

\* What the code does keep: _detect_compliance_anomalies returns one HIGH
\* anomaly for each issue of a NON_COMPLIANT result and nothing otherwise, and a
\* report of the agent's detector, when there is one, holds exactly these.
C22_MethodEmitsOnePerIssue ==
    /\ Called("_detect_compliance_anomalies") =>
          LET co == unit_call[1].args
              found == unit_ret[1]
          IN  /\ Len(found) = (IF co # None /\ co[1].compliance_status = "NON_COMPLIANT"
                               THEN Len(co[1].issues) ELSE 0)
              /\ \A i \in DOMAIN found :
                    found[i].severity = "HIGH" /\ found[i].type = "compliance_issue"
    /\ (Called("AnomalyDetectorAgent._process") /\ unit_ret[1].ok) =>
          LET co == unit_call[1].args.compliance_data
              found == unit_ret[1].value[1].anomalies
          IN  /\ Cardinality(ComplianceAnomalies(found))
                   = (IF co # None /\ co[1].compliance_status = "NON_COMPLIANT"
                      THEN Len(co[1].issues) ELSE 0)
              /\ \A i \in ComplianceAnomalies(found) : found[i].severity = "HIGH"
    /\ Called("detect_anomalies_tool") =>
          LET co == unit_call[1].args.compliance
              found == unit_ret[1].anomalies
          IN  /\ Cardinality(ComplianceAnomalies(found))
                   = (IF co.compliance_status = "NON_COMPLIANT" THEN 1 ELSE 0)
              /\ \A i \in ComplianceAnomalies(found) : found[i].severity = "MEDIUM"

\* A NON_COMPLIANT result handed to the agent's detector with a breakdown of
\* gross 0: the detector raised and emitted nothing.
C22_NonCompliantDetectorFailedWitness ==
    /\ Called("AnomalyDetectorAgent._process")
    /\ unit_call[1].args.compliance_data # None
    /\ unit_call[1].args.compliance_data[1].compliance_status = "NON_COMPLIANT"
    /\ unit_call[1].args.salary_data # None
    /\ unit_call[1].args.compliance_data[1]
          \in ComplianceProcess(unit_call[1].args.salary_data[1])
    /\ ~unit_ret[1].ok

\* ------------------------------------------------------------------ the validated deductions

\* The validated deductions vd hold the figures recomputed from the breakdown
\* sb: PF, ESI and professional tax.
HoldsRecomputed(vd, sb) ==
    /\ IsRounded(vd.pf, ExpectedPF100(sb), 100)
    /\ IsRounded(vd.esi, ExpectedESI10000(sb), 10000)
    /\ vd.professional_tax = ExpectedPT(sb)

\* C23 (as stated): the validated deductions of every compliance result, the
\* agent's and the tool's, hold the recomputed PF, ESI and professional tax,
\* while TDS (and advance, loan and other deductions) are the input breakdown's
\* values unchanged, even when a TDS issue was raised.
C23_ValidatedDeductionsRecomputed ==
    /\ Called("ComplianceMapperAgent._process") =>
          LET sb == unit_call[1].args
              vd == unit_ret[1].validated_deductions
          IN  /\ HoldsRecomputed(vd, sb)
              /\ vd.tds = sb.deductions.tds
              /\ vd.advance = sb.deductions.advance
              /\ vd.loan_deduction = sb.deductions.loan_deduction
              /\ vd.other_deductions = sb.deductions.other_deductions
    /\ Called("validate_compliance_tool") =>
          LET sd == unit_call[1].args
              vd == unit_ret[1].validated_deductions
          IN  /\ HoldsRecomputed(vd, sd)
              /\ vd.tds = sd.deductions.tds

\* What the code does keep: the agent's validated deductions are as stated, and
\* the tool's are the four input values as they came, TDS included.
C23_AgentRecomputesToolEchoes ==
    /\ Called("ComplianceMapperAgent._process") =>
          LET sb == unit_call[1].args
              v == unit_ret[1]
              vd == v.validated_deductions
          IN  /\ HoldsRecomputed(vd, sb)
              /\ vd.tds = sb.deductions.tds
              /\ vd.advance = sb.deductions.advance
              /\ vd.loan_deduction = sb.deductions.loan_deduction
              /\ vd.other_deductions = sb.deductions.other_deductions
    /\ Called("validate_compliance_tool") =>
          LET sd == unit_call[1].args
              vd == unit_ret[1].validated_deductions
          IN  /\ vd.pf = sd.deductions.pf
              /\ vd.esi = sd.deductions.esi
              /\ vd.professional_tax = sd.deductions.professional_tax
              /\ vd.tds = sd.deductions.tds

\* A validation by the agent that raised a TDS issue and whose validated
\* deductions hold a PF other than the input's and the input's TDS.
C23_TdsIssueKeptWitness ==
    /\ Called("ComplianceMapperAgent._process")
    /\ HasIssue(unit_ret[1], "TDS appears unusually high - please verify calculation")
    /\ unit_ret[1].validated_deductions.tds = unit_call[1].args.deductions.tds
    /\ unit_ret[1].validated_deductions.pf # unit_call[1].args.deductions.pf

\* A validation by the tool of a breakdown with a PF above the cap: the
\* validated deductions hold that PF.
C23_ToolEchoesWrongPFWitness ==
    /\ Called("validate_compliance_tool")
    /\ unit_call[1].args.deductions.pf > PF_CAP
    /\ unit_ret[1].validated_deductions.pf = unit_call[1].args.deductions.pf

\* ------------------------------------------------------------------ the annual-to-monthly conversion

\* C24 (as stated): when is_annual is set, every populated salary figure (basic,
\* HRA, allowances, special, medical, transport and meal allowance, gross,
\* variable pay, bonus) is divided by 12 once, and the flag is cleared so that a
\* later pass cannot divide again.
C24_EveryFigureDividedOnce ==
    (Called("_structure_contract_data") /\ unit_call[1].args.is_annual) =>
        /\ \A f \in SalaryFigures :
              unit_call[1].args[f] # None =>
                  unit_ret[1][f] = Some(Div12(unit_call[1].args[f][1]))
        /\ unit_ret[1].is_annual = FALSE

\* What the code does keep: basic, HRA, allowances and gross are divided by 12
\* once, the six other figures are left as they came, the flag is cleared and a
\* second pass over the result changes nothing; without the flag nothing changes.
C24_FourFiguresDividedOnce ==
    Called("_structure_contract_data") =>
        LET parsed == unit_call[1].args
            out == unit_ret[1]
        IN  /\ out.is_annual = FALSE
            /\ StructureSalary(out) = out
            /\ \A f \in SalaryFigures \ ConvertedFigures : out[f] = parsed[f]
            /\ \A f \in ConvertedFigures :
                  out[f] = (IF parsed.is_annual /\ parsed[f] # None
                            THEN Some(Div12(parsed[f][1])) ELSE parsed[f])

\* A yearly structure with a basic of 600000 and a special allowance of 180000:
\* the basic came out as 50000 and the special allowance as 180000.
C24_SpecialAllowanceKeptWitness ==
    /\ Called("_structure_contract_data")
    /\ unit_call[1].args.is_annual
    /\ unit_call[1].args.basic = Some(Rs(600000))
    /\ unit_call[1].args.special_allowance = Some(Rs(180000))
    /\ unit_ret[1].basic = Some(Rs(50000))
    /\ unit_ret[1].special_allowance = Some(Rs(180000))

\* ------------------------------------------------------------------ PF without a basic

\* pf is min(12% of 40% of gross, 1800) rounded to 2 decimals.
IsEstimatedPF(pf, gross) == IsRounded(pf, Min(gross * 48, PF_CAP * 1000), 1000)

\* C25 (as stated): when the basic is not greater than 0 (absent or zero), the
\* PF deduction of the calculator, the agent's and the tool's, is min(12% of an
\* estimated basic of 40% of gross, 1800).
C25_PFFromEstimatedBasic ==
    /\ (agent_out # None /\ agent_out[1].basic_salary <= 0) =>
          IsEstimatedPF(agent_out[1].deductions.pf, agent_out[1].gross_salary)
    /\ (tool_out # None /\ tool_out[1].error = ""
          /\ OrZero(ToMonthlyIfNeeded(calc_input[1].salary_structure.basic)) <= 0) =>
          IsEstimatedPF(tool_out[1].deductions.pf, tool_out[1].gross_salary)

\* What the code does keep: the agent's PF is 0 whenever its basic is not above
\* 0; the tool's PF is the estimate when the basic is absent, and 12% of the
\* basic, 0 or less, when the basic is 0 or negative.
C25_PFWithoutBasicInCode ==
    /\ (agent_out # None /\ agent_out[1].basic_salary <= 0) =>
          agent_out[1].deductions.pf = 0
    /\ (tool_out # None /\ tool_out[1].error = "") =>
          LET basic_m == ToMonthlyIfNeeded(calc_input[1].salary_structure.basic)
          IN  /\ basic_m = None =>
                    IsEstimatedPF(tool_out[1].deductions.pf, tool_out[1].gross_salary)
              /\ (basic_m # None /\ basic_m[1] <= 0) =>
                    IsRounded(tool_out[1].deductions.pf, basic_m[1] * 12, 100)

\* A contract with an HRA and no basic: the agent's breakdown has a gross above
\* 0 and a PF of 0.
C25_NoBasicNoPFWitness ==
    /\ agent_out # None
    /\ calc_input[1].salary_structure.basic = None
    /\ agent_out[1].basic_salary = 0
    /\ agent_out[1].gross_salary > 0
    /\ agent_out[1].deductions.pf = 0

\* ------------------------------------------------------------------ the validator on the calculator's breakdown

\* C26 (as stated): whenever the salary stage succeeded, whatever the location
\* and the salary level, the compliance stage run on its breakdown returns
\* COMPLIANT with no issue: the validator's PF, ESI, professional tax and TDS
\* checks agree with the calculator's figures.
C26_CalculatorOutputCompliant ==
    (Ran("compliance_mapper") /\ ~Failed("compliance_mapper")) =>
        /\ Stage("compliance_mapper")[1].output[1].compliance_status = "COMPLIANT"
        /\ Stage("compliance_mapper")[1].output[1].issues = <<>>

\* What the code does keep: on the calculator's breakdown the validator raises
\* no PF, ESI or TDS issue, and its only issue is the professional tax one,
\* raised when the calculator's tax for the employee's location is more than 5
\* rupees from the Karnataka amount.
C26_OnlyProfessionalTaxDisagrees ==
    (Ran("compliance_mapper") /\ ~Failed("compliance_mapper")) =>
        LET sb == Stage("salary_breakdown")[1].output[1]
            v == Stage("compliance_mapper")[1].output[1]
        IN  /\ \A i \in DOMAIN v.issues : v.issues[i] = "Professional Tax mismatch"
            /\ HasIssue(v, "Professional Tax mismatch")
                  <=> Abs(ExpectedPT(sb) - sb.deductions.professional_tax) > Rs(5)
            /\ v.compliance_status = (IF v.issues = <<>> THEN "COMPLIANT" ELSE "NON_COMPLIANT")

\* A run on a contract located in Chennai whose compliance stage returned
\* NON_COMPLIANT on the salary stage's own breakdown.
C26_ChennaiNonCompliantWitness ==
    /\ pc = "returned"
    /\ contract[1].data.employee_info.location = Some("Chennai, Tamil Nadu")
    /\ Succeeded(Stage("salary_breakdown"))
    /\ Ran("compliance_mapper")
    /\ ~Failed("compliance_mapper")
    /\ Stage("compliance_mapper")[1].output[1].compliance_status = "NON_COMPLIANT"

\* ------------------------------------------------------------------ the calculation checks on the calculator's breakdown

\* C27 (as stated): on every breakdown SalaryBreakdownAgent produced, the
\* calculation checks of the anomaly detector raise nothing: neither the
\* component-sum check, nor the net-arithmetic check, nor the negative-net
\* check, also when the deductions exceed the gross and the net is clamped to 0.
C27_NoCalculationAnomaly ==
    Called("_detect_calculation_anomalies") => unit_ret[1] = <<>>

\* C27 (amended): on every breakdown SalaryBreakdownAgent produced, the
\* component-sum check and the negative-net check raise nothing, and the
\* net-arithmetic check raises its HIGH anomaly exactly when the deductions
\* exceed the gross by more than 1 rupee, which is when the net was clamped to 0
\* from below -1.
C27_OnlyClampedNetFlagged ==
    Called("_detect_calculation_anomalies") =>
        LET sb == unit_call[1].args
            found == unit_ret[1]
            over == SumDeductions(sb.deductions) - sb.gross_salary
        IN  /\ \A i \in DOMAIN found :
                  found[i] = Anomaly("calculation_error", "HIGH", "net_salary")
            /\ Len(found) <= 1
            /\ found # <<>> <=> over > Rs(1)
            /\ found # <<>> => sb.net_salary = 0

\* A breakdown with a gross above 0 and deductions above the gross: its net is
\* 0 and the net-arithmetic check raised its anomaly.
C27_ClampedNetFlaggedWitness ==
    /\ Called("_detect_calculation_anomalies")
    /\ unit_call[1].args.gross_salary > 0
    /\ SumDeductions(unit_call[1].args.deductions) > unit_call[1].args.gross_salary
    /\ unit_call[1].args.net_salary = 0
    /\ unit_ret[1] = <<Anomaly("calculation_error", "HIGH", "net_salary")>>

\* ---------------------------------------------------------------------------
\* C28: a contract without an employee id
\* ---------------------------------------------------------------------------

\* The contract of the run was read successfully and carries no employee id.
ReadWithoutEmployeeId ==
    /\ Succeeded(Stage("contract_reader"))
    /\ contract[1].data.employee_info.employee_id = None

\* The success flag and the stage sections _finalize_result_node derives from the
\* stage results of the run; none of them reads the employee id, so they are the
\* ones of the same contract with an employee id.
SectionsOfStages ==
    [success |-> OverallSuccess(agent_results),
     contract_data |-> OutputOf(Stage("contract_reader")),
     salary_data |-> OutputOf(Stage("salary_breakdown")),
     compliance_data |-> OutputOf(Stage("compliance_mapper")),
     anomalies_data |-> OutputOf(Stage("anomaly_detector")),
     paystub_data |-> OutputOf(Stage("paystub_generator"))]

\* The success flag and the stage sections of the returned record.
SectionsOfRecord ==
    [success |-> Record.success,
     contract_data |-> Record.contract_data,
     salary_data |-> Record.salary_data,
     compliance_data |-> Record.compliance_data,
     anomalies_data |-> Record.anomalies_data,
     paystub_data |-> Record.paystub_data]

\* C28 (as stated): when the contract reader succeeds on a contract that has no
\* employee id, the returned record has employee_id "unknown" and its success
\* flag and stage sections are those of the same contract with an employee id.
C28_NoIdSameAsWithId ==
    (pc = "returned" /\ ReadWithoutEmployeeId) =>
        /\ Record.employee_id = "unknown"
        /\ SectionsOfRecord = SectionsOfStages

\* What the code does: with an employee id the record carries the sections of the
\* stages; without one the record is the error record, with employee_id
\* "unknown", success false, no section, no agent log and the finalize failure in
\* its error list.
C28_NoIdReturnsErrorRecord ==
    (pc = "returned" /\ Succeeded(Stage("contract_reader"))) =>
        IF contract[1].data.employee_info.employee_id = None
        THEN /\ Record = ErrorResult(errors)
             /\ HasError(Record.errors,
                    <<"Failed to finalize result",
                      "validation error for ProcessingResult: employee_id">>)
        ELSE /\ Record.employee_id = contract[1].data.employee_info.employee_id[1]
             /\ SectionsOfRecord = SectionsOfStages

\* A run on a contract without an employee id whose reader and salary stages
\* succeeded and whose record has no salary section.
C28_NoIdSalaryLostWitness ==
    /\ pc = "returned"
    /\ ReadWithoutEmployeeId
    /\ Succeeded(Stage("salary_breakdown"))
    /\ Record.employee_id = "unknown"
    /\ Record.success = FALSE
    /\ Record.salary_data = None

\* ------------------------------------------------------------------ PayrollAgenticAI.process_contract_pipeline

\* The tools process_contract_pipeline calls, in the order of its steps.
PipelineTools ==
    <<"extract_pdf_text_tool", "parse_contract_data_tool",
      "calculate_salary_breakdown_tool", "validate_compliance_tool",
      "detect_anomalies_tool">>

\* The stripped text of a PDF, as its words: none, some that start with
\* "Error:", some that do not.
PdfTexts == {<<>>, <<"Error:", "see annex">>, <<"Employment", "contract">>}

\* The file at contract_path.
PipelineFiles ==
    {[readable |-> FALSE, text |-> <<>>]} \cup {[readable |-> TRUE, text |-> t] : t \in PdfTexts}

\* extract_pdf_text_tool: the text of the pages, or "Error: ..." when PdfReader
\* raised.
ExtractPdfTextTool(file) ==
    IF ~file.readable THEN <<"Error:", "No such file or directory">> ELSE file.text

\* text.startswith("Error:")
StartsWithError(text) == text # <<>> /\ text[1] = "Error:"

\* A JSON object of the parse step: its "error" entry (None when absent or
\* null) and its "salary_structure" entry (None when null).
JsonObject(error, salary_structure) ==
    [type |-> "object", error |-> error, salary_structure |-> salary_structure]

\* json.dumps({"error": message})
ErrorJson(message) == [error |-> message]

\* The salary structures the model answers with; the one without any figure is
\* also what a missing "salary_structure" key reads as.
PipelineStructures ==
    {SalaryStructure(None, None, None, None, None),
     SalaryStructure(None, None, None, None, Some(Rs(20000))),
     SalaryStructure(Some(Rs(8000)), None, None, None, None),
     SalaryStructure(Some(Rs(50000)), Some(Rs(20000)), Some(Rs(15000)), None,
                     Some(Rs(30000)))}

\* What json.loads can make of the model's answer: null, an array, or an object.
JsonValues ==
    {[type |-> "null"], [type |-> "array"]}
    \cup {JsonObject(e, s) : e \in {None, Some("no salary details found")},
                             s \in {None} \cup {Some(ss) : ss \in PipelineStructures}}

\* What client.chat.completions.create does in parse_contract_data_tool: it
\* raises, answers text that is not JSON, or answers JSON.
LlmAnswers ==
    {[kind |-> "raises"], [kind |-> "text"]}
    \cup {[kind |-> "json", value |-> v] : v \in JsonValues}

\* The tools whose body can raise inside their own try, None when none does.
PipelineFaults ==
    {None, Some("calculate_salary_breakdown_tool"), Some("validate_compliance_tool"),
     Some("detect_anomalies_tool")}

PipelineInputs ==
    {[file |-> f, llm |-> a, fault |-> x] :
        f \in PipelineFiles, a \in LlmAnswers, x \in PipelineFaults}

\* parse_contract_data_tool followed by _safe_load_json: the parsed value of the
\* JSON string the tool returns.
ParseContractDataTool(contract_text, llm) ==
    IF llm.kind = "raises" THEN JsonObject(Some("APIConnectionError"), None)
    ELSE IF llm.kind = "text" \/ llm.value.type = "null"
         THEN JsonObject(Some("LLM output not valid JSON"), None)
    ELSE llm.value

\* calculate_salary_breakdown_tool on json.dumps(parsed): ss.get on a null
\* salary_structure raises inside the tool's try.
CalculateSalaryBreakdownTool(parsed, fault) ==
    IF fault = Some("calculate_salary_breakdown_tool") THEN {ErrorJson("internal error")}
    ELSE IF parsed.salary_structure = None
         THEN {ErrorJson("'NoneType' object has no attribute 'get'")}
    ELSE ToolCalculate(parsed.salary_structure[1])

\* validate_compliance_tool on json.dumps(salary)
ValidateComplianceTool(salary, fault) ==
    IF fault = Some("validate_compliance_tool") THEN ErrorJson("internal error")
    ELSE ToolValidateCompliance(salary)

\* detect_anomalies_tool on json.dumps(combined)
DetectAnomaliesTool(combined, fault) ==
    IF fault = Some("detect_anomalies_tool") THEN ErrorJson("internal error")
    ELSE ToolDetectAnomalies(combined)

\* `d.get("error")` is truthy, for the dicts of the last three tools.
GetError(d) == "error" \in DOMAIN d /\ d.error # ""

\* A section left as the JSON string of the tool instead of the parsed dict.
JsonString(value) == [json_string |-> value]

\* The prefix of the entry the pipeline appends when the step of tool fails.
FailureLabel(tool) ==
    IF tool = "parse_contract_data_tool"
    THEN "parse_contract_data_tool failed or invalid JSON"
    ELSE IF tool = "extract_pdf_text_tool" THEN "extract_pdf_text_tool failed"
    ELSE IF tool = "calculate_salary_breakdown_tool"
         THEN "calculate_salary_breakdown_tool failed"
    ELSE IF tool = "validate_compliance_tool" THEN "validate_compliance_tool failed"
    ELSE "detect_anomalies_tool failed"

\* `output` as process_contract_pipeline creates it.
InitialOutput ==
    [success |-> FALSE, contract_data |-> None, salary_data |-> None,
     compliance_data |-> None, anomalies_data |-> None, errors |-> <<>>]

\* process_contract_pipeline(contract_path), up to the try.
PipelineStart ==
    /\ pipe_pc \in {"idle", "returned"}
    /\ \E i \in PipelineInputs : pipe_input' = Some(i)
    /\ pipe_text' = None
    /\ pipe_ran' = <<>>
    /\ pipe_output' = Some(InitialOutput)
    /\ pipe_pc' = PipelineTools[1]
    /\ UNCHANGED <<calcVars, flowVars, unitVars, batchVars, ragVars>>

\* errors.append(entry); output["errors"] = errors; output[section] = raw;
\* return output. The local errors list is empty until then.
PipelineFail(tool, detail, section, raw) ==
    LET error_list == Append(<<>>, <<FailureLabel(tool), detail>>)
        out == [pipe_output[1] EXCEPT !.errors = error_list]
    IN  /\ pipe_output' = Some(IF section = "" THEN out
                               ELSE [out EXCEPT ![section] = Some(JsonString(raw))])
        /\ pipe_pc' = "returned"

\* The except clause: output["errors"].append(str(e)); return output.
PipelineExcept(message) ==
    /\ pipe_output' = Some([pipe_output[1] EXCEPT
                               !.errors = Append(pipe_output[1].errors, <<message, "">>)])
    /\ pipe_pc' = "returned"

\* Step 1: extract text.
PipelineExtract ==
    /\ pipe_pc = "extract_pdf_text_tool"
    /\ pipe_ran' = Append(pipe_ran, "extract_pdf_text_tool")
    /\ LET text == ExtractPdfTextTool(pipe_input[1].file)
       IN  /\ pipe_text' = Some(text)
           /\ IF StartsWithError(text) \/ text = <<>>
              THEN PipelineFail("extract_pdf_text_tool", text, "", None)
              ELSE /\ pipe_pc' = "parse_contract_data_tool"
                   /\ UNCHANGED pipe_output
    /\ UNCHANGED pipe_input
    /\ UNCHANGED <<calcVars, flowVars, unitVars, batchVars, ragVars>>

\* Step 2: parse the contract. parsed.get raises when the JSON is not an object.
PipelineParse ==
    /\ pipe_pc = "parse_contract_data_tool"
    /\ pipe_ran' = Append(pipe_ran, "parse_contract_data_tool")
    /\ LET parsed == ParseContractDataTool(pipe_text[1], pipe_input[1].llm)
       IN  IF parsed.type # "object"
           THEN PipelineExcept("'list' object has no attribute 'get'")
           ELSE IF parsed.error # None
                THEN PipelineFail("parse_contract_data_tool", parsed.error[1],
                                  "contract_data", parsed)
           ELSE /\ pipe_output' = Some([pipe_output[1] EXCEPT !.contract_data = Some(parsed)])
                /\ pipe_pc' = "calculate_salary_breakdown_tool"
    /\ UNCHANGED <<pipe_input, pipe_text>>
    /\ UNCHANGED <<calcVars, flowVars, unitVars, batchVars, ragVars>>

\* Step 3: calculate the salary.
PipelineCalculate ==
    /\ pipe_pc = "calculate_salary_breakdown_tool"
    /\ pipe_ran' = Append(pipe_ran, "calculate_salary_breakdown_tool")
    /\ \E salary \in CalculateSalaryBreakdownTool(pipe_output[1].contract_data[1],
                                                  pipe_input[1].fault) :
          IF GetError(salary)
          THEN PipelineFail("calculate_salary_breakdown_tool", salary.error,
                            "salary_data", salary)
          ELSE /\ pipe_output' = Some([pipe_output[1] EXCEPT !.salary_data = Some(salary)])
               /\ pipe_pc' = "validate_compliance_tool"
    /\ UNCHANGED <<pipe_input, pipe_text>>
    /\ UNCHANGED <<calcVars, flowVars, unitVars, batchVars, ragVars>>

\* Step 4: compliance.
PipelineValidate ==
    /\ pipe_pc = "validate_compliance_tool"
    /\ pipe_ran' = Append(pipe_ran, "validate_compliance_tool")
    /\ LET compliance == ValidateComplianceTool(pipe_output[1].salary_data[1],
                                                pipe_input[1].fault)
       IN  IF GetError(compliance)
           THEN PipelineFail("validate_compliance_tool", compliance.error,
                             "compliance_data", compliance)
           ELSE /\ pipe_output' = Some([pipe_output[1] EXCEPT
                                           !.compliance_data = Some(compliance)])
                /\ pipe_pc' = "detect_anomalies_tool"
    /\ UNCHANGED <<pipe_input, pipe_text>>
    /\ UNCHANGED <<calcVars, flowVars, unitVars, batchVars, ragVars>>

\* Step 5: anomalies, then success = len(errors) == 0 and the return.
PipelineDetect ==
    /\ pipe_pc = "detect_anomalies_tool"
    /\ pipe_ran' = Append(pipe_ran, "detect_anomalies_tool")
    /\ LET parsed == pipe_output[1].contract_data[1]
           combined == [contract |-> [salary_structure |-> parsed.salary_structure[1]],
                        salary |-> pipe_output[1].salary_data[1],
                        compliance |-> pipe_output[1].compliance_data[1]]
           anomalies == DetectAnomaliesTool(combined, pipe_input[1].fault)
           error_list == <<>>
       IN  IF GetError(anomalies)
           THEN PipelineFail("detect_anomalies_tool", anomalies.error,
                             "anomalies_data", anomalies)
           ELSE /\ pipe_output' = Some([pipe_output[1] EXCEPT
                                           !.anomalies_data = Some(anomalies),
                                           !.success = (Len(error_list) = 0),
                                           !.errors = error_list])
                /\ pipe_pc' = "returned"
    /\ UNCHANGED <<pipe_input, pipe_text>>
    /\ UNCHANGED <<calcVars, flowVars, unitVars, batchVars, ragVars>>

PipeNext ==
    \/ PipelineStart
    \/ PipelineExtract
    \/ PipelineParse
    \/ PipelineCalculate
    \/ PipelineValidate
    \/ PipelineDetect

PipeSpec == Init /\ [][PipeNext]_vars

\* ---------------------------------------------------------------------------
\* C29: process_contract_pipeline
\* ---------------------------------------------------------------------------

\* The returned dict of process_contract_pipeline.
PipelineOutput == pipe_output[1]

\* The tools called so far are the first ones of PipelineTools, in that order.
RanInOrder == pipe_ran = SubSeq(PipelineTools, 1, Len(pipe_ran))

\* section holds the parsed dict of its tool.
Populated(section) ==
    /\ PipelineOutput[section] # None
    /\ "json_string" \notin DOMAIN PipelineOutput[section][1]

\* No section after the first k holds anything.
LaterSectionsEmpty ==
    LET sections == <<"contract_data", "salary_data", "compliance_data", "anomalies_data">>
    IN  \A k \in 1..4 : k + 1 > Len(pipe_ran) => PipelineOutput[sections[k]] = None

\* C29 (as stated): the pipeline calls extract, parse, calculate, validate,
\* detect in that order and stops at the first failing stage; it returns
\* success=true iff all five stages succeeded, then with no error and the four
\* sections populated, and otherwise the error list has exactly one entry, which
\* names the failed stage.
C29_PipelineStopsAndNamesStage ==
    /\ RanInOrder
    /\ pipe_pc = "returned" =>
          /\ LaterSectionsEmpty
          /\ PipelineOutput.success <=>
                (pipe_ran = PipelineTools /\ PipelineOutput.errors = <<>>)
          /\ PipelineOutput.success =>
                \A section \in {"contract_data", "salary_data", "compliance_data",
                                "anomalies_data"} : Populated(section)
          /\ ~PipelineOutput.success =>
                /\ Len(PipelineOutput.errors) = 1
                /\ PipelineOutput.errors[1][1] = FailureLabel(pipe_ran[Len(pipe_ran)])

\* The model answered JSON that is not an object.
AnsweredNonObject ==
    /\ pipe_input[1].llm.kind = "json"
    /\ pipe_input[1].llm.value.type = "array"

\* What the code does: as stated, except that a parse step whose JSON is not an
\* object leaves the pipeline through the except clause, and the one entry is
\* then the text of the exception, which names no stage.
C29_ExceptionEntryNamesNoStage ==
    /\ RanInOrder
    /\ pipe_pc = "returned" =>
          /\ LaterSectionsEmpty
          /\ PipelineOutput.success <=>
                (pipe_ran = PipelineTools /\ PipelineOutput.errors = <<>>)
          /\ PipelineOutput.success =>
                \A section \in {"contract_data", "salary_data", "compliance_data",
                                "anomalies_data"} : Populated(section)
          /\ ~PipelineOutput.success =>
                /\ Len(PipelineOutput.errors) = 1
                /\ IF pipe_ran[Len(pipe_ran)] = "parse_contract_data_tool" /\ AnsweredNonObject
                   THEN PipelineOutput.errors[1] =
                            <<"'list' object has no attribute 'get'", "">>
                   ELSE PipelineOutput.errors[1][1] = FailureLabel(pipe_ran[Len(pipe_ran)])

\* The pipeline returned after the parse step raised on a JSON array.
C29_ParseRaisedWitness ==
    /\ pipe_pc = "returned"
    /\ AnsweredNonObject
    /\ pipe_ran = SubSeq(PipelineTools, 1, 2)
    /\ ~PipelineOutput.success
    /\ \A tool \in {PipelineTools[i] : i \in 1..5} :
          PipelineOutput.errors[1][1] # FailureLabel(tool)

\* The pipeline returned a success after its five steps.
C29_AllFiveSucceededWitness ==
    /\ pipe_pc = "returned"
    /\ PipelineOutput.success
    /\ pipe_ran = PipelineTools

\* The pipeline stopped at a failing compliance step.
C29_StoppedAtValidateWitness ==
    /\ pipe_pc = "returned"
    /\ pipe_ran = SubSeq(PipelineTools, 1, 4)
    /\ PipelineOutput.errors[1][1] = "validate_compliance_tool failed"
    /\ PipelineOutput.anomalies_data = None

\* ------------------------------------------------------------------ PayrollRAGSystem: the rules of a store

\* The orders in which the elements of S can come.
RECURSIVE Orderings(_)
Orderings(S) ==
    IF S = {} THEN {<<>>}
    ELSE UNION {{<<x>> \o rest : rest \in Orderings(S \ {x})} : x \in S}

\* search_compliance_rules(query, rule_type, top_k) on a store: the result lists
\* it can return. The collection of the rule type is queried for
\* min(top_k, 10) documents, which come sorted by their distance to the query,
\* so in any order; when embed_query or collection.query raises the except
\* branch returns [].
SearchStore(store, rule_type, top_k, how) ==
    IF how = "search failed" THEN {<<>>}
    ELSE LET collection == store[CollectionOf(rule_type)]
             n_results == Min(Min(top_k, 10), Cardinality(collection))
         IN  UNION {Orderings(found) :
                      found \in {T \in SUBSET collection : Cardinality(T) = n_results}}

\* [r["content"] for r in results]
ContentsOf(results) == [i \in 1..Len(results) |-> results[i].content]

\* A get_pf_rules that reads the cap off the retrieved documents instead: the
\* statutory cap when none was revised, 5000 otherwise.
GetPfRulesFromDocuments(store, basic_salary, how) ==
    {[employee_rate |-> 1200, employer_rate |-> 1200,
      max_contribution |-> IF \E i \in 1..Len(results) : results[i].content # "default"
                           THEN Rs(5000) ELSE PF_CAP,
      applicable |-> TRUE, calculation_base |-> "basic_salary",
      rules |-> ContentsOf(results)] :
        results \in SearchStore(store, "pf_rule", 3, how)}

\* get_pf_rules; the rates are in hundredths of a percent.
GetPfRules(store, basic_salary, how) ==
    {[employee_rate |-> 1200, employer_rate |-> 1200, max_contribution |-> PF_CAP,
      applicable |-> TRUE, calculation_base |-> "basic_salary",
      rules |-> ContentsOf(results)] :
        results \in SearchStore(store, "pf_rule", 3, how)}

\* get_esi_rules
GetEsiRules(store, gross_salary, how) ==
    LET applicable == gross_salary <= ESI_LIMIT
    IN  {[employee_rate |-> IF applicable THEN 75 ELSE 0,
          employer_rate |-> IF applicable THEN 325 ELSE 0,
          salary_limit |-> ESI_LIMIT, applicable |-> applicable,
          rules |-> ContentsOf(results)] :
            results \in SearchStore(store, "esi_rule", 3, how)}

\* _get_tax_slab
GetTaxSlab(annual_income) ==
    IF annual_income <= Rs(250000) THEN "0%"
    ELSE IF annual_income <= Rs(500000) THEN "5%"
    ELSE IF annual_income <= Rs(1000000) THEN "20%"
    ELSE "30%"

\* get_tax_rules
GetTaxRules(store, annual_income, how) ==
    {[standard_deduction |-> Rs(50000), section_80c_limit |-> Rs(150000),
      applicable_slab |-> GetTaxSlab(annual_income),
      rules |-> ContentsOf(results)] :
        results \in SearchStore(store, "tax_rule", 3, how)}

\* get_professional_tax_rules
GetProfessionalTaxRules(store, state, gross_salary, how) ==
    LET pt_amount == RagProfessionalTax(state, gross_salary)
    IN  {[state |-> state, monthly_amount |-> pt_amount, applicable |-> pt_amount > 0,
          rules |-> ContentsOf(results)] :
            results \in SearchStore(store, "state_rule", 3, how)}

\* get_all_applicable_rules of a PayrollRAGSystem over store: every rules dict it
\* can return. Nothing the store holds reaches its except branch, since
\* search_compliance_rules catches what the retrieval raises.
StoreApplicableRules(store, employee_data, how) ==
    LET basic_salary == employee_data.basic_salary
        gross_salary == employee_data.gross_salary
        annual_income == gross_salary * 12
        state == employee_data.state
    IN  {[pf_rules |-> pf, esi_rules |-> esi, tax_rules |-> tax,
          professional_tax_rules |-> pt] :
            pf \in GetPfRules(store, basic_salary, how),
            esi \in GetEsiRules(store, gross_salary, how),
            tax \in GetTaxRules(store, annual_income, how),
            pt \in GetProfessionalTaxRules(store, state, gross_salary, how)}

\* The persist directory nothing was stored in, the one holding the default
\* rules, and those a caller added one document to.
RuleStores ==
    LET empty == [c \in Collections |-> {}]
        default == AddDocuments(empty, DefaultRules, 1, {}, "ignored").store
    IN  {empty, default}
        \cup {AddDocument(default, doc, FALSE, "ignored").store : doc \in CallerDocuments}

\* The employee facts of a breakdown, as ComplianceMapperAgent._process passes
\* them, for a state.
EmployeeData(sb, state) ==
    [basic_salary |-> sb.basic_salary, gross_salary |-> sb.gross_salary,
     annual_income |-> sb.annual_gross, state |-> state]

\* Two PayrollRAGSystem objects over different directories are asked for the
\* rules of the same employee, and the breakdown is validated with each answer.
CallRulesOfTwoStores ==
    \E sb \in UnitBreakdowns, state \in {"Karnataka", "Chennai, Tamil Nadu"},
       store_a \in RuleStores, store_b \in RuleStores,
       how_a \in {"retrieved", "search failed"}, how_b \in {"retrieved", "search failed"} :
        Call("get_all_applicable_rules",
             [salary_breakdown |-> sb, state |-> state,
              stores |-> <<store_a, store_b>>, how |-> <<how_a, how_b>>])

ReturnRulesOfTwoStores ==
    /\ Calling("get_all_applicable_rules")
    /\ LET args == unit_call[1].args
           employee_data == EmployeeData(args.salary_breakdown, args.state)
       IN  \E rules_a \in StoreApplicableRules(args.stores[1], employee_data, args.how[1]),
              rules_b \in StoreApplicableRules(args.stores[2], employee_data, args.how[2]) :
             \E validation_a \in ComplianceProcessWith(args.salary_breakdown, rules_a),
                validation_b \in ComplianceProcessWith(args.salary_breakdown, rules_b) :
                 Return([rules |-> <<rules_a, rules_b>>,
                         validations |-> <<validation_a, validation_b>>])

RulesNext ==
    \/ CallRulesOfTwoStores
    \/ ReturnRulesOfTwoStores
    \/ UnitDone

RulesSpec == Init /\ [][RulesNext]_vars

\* ---------------------------------------------------------------------------
\* C30: rule values and stored documents
\* ---------------------------------------------------------------------------

\* The numeric values of a rules dict: everything but the retrieved texts.
RuleValues(rules) ==
    [pf_rules |-> [employee_rate |-> rules.pf_rules.employee_rate,
                   employer_rate |-> rules.pf_rules.employer_rate,
                   max_contribution |-> rules.pf_rules.max_contribution,
                   applicable |-> rules.pf_rules.applicable],
     esi_rules |-> [employee_rate |-> rules.esi_rules.employee_rate,
                    employer_rate |-> rules.esi_rules.employer_rate,
                    salary_limit |-> rules.esi_rules.salary_limit,
                    applicable |-> rules.esi_rules.applicable],
     tax_rules |-> [standard_deduction |-> rules.tax_rules.standard_deduction,
                    section_80c_limit |-> rules.tax_rules.section_80c_limit,
                    applicable_slab |-> rules.tax_rules.applicable_slab],
     professional_tax_rules |->
                   [state |-> rules.professional_tax_rules.state,
                    monthly_amount |-> rules.professional_tax_rules.monthly_amount,
                    applicable |-> rules.professional_tax_rules.applicable]]

\* The retrieved texts of a rules dict.
RuleTexts(rules) ==
    <<rules.pf_rules.rules, rules.esi_rules.rules, rules.tax_rules.rules,
      rules.professional_tax_rules.rules>>

\* The verdict of a validation: its status, its issues, its recommendations and
\* the professional tax it expects.
Verdict(validation) ==
    [compliance_status |-> validation.compliance_status,
     issues |-> validation.issues,
     recommendations |-> validation.recommendations,
     expected_professional_tax |-> validation.validated_deductions.professional_tax]

\* C30: the numeric rule values get_all_applicable_rules returns depend on the
\* employee facts only: two stores, whatever documents they hold and whatever
\* was retrieved from them, return the same values for the same employee, and
\* the breakdown gets the same compliance verdict with either.
C30_RuleValuesIndependentOfStore ==
    Called("get_all_applicable_rules") =>
        LET ret == unit_ret[1]
            employee_data == EmployeeData(unit_call[1].args.salary_breakdown,
                                          unit_call[1].args.state)
        IN  /\ RuleValues(ret.rules[1]) = RuleValues(ret.rules[2])
            /\ RuleValues(ret.rules[1]).professional_tax_rules.monthly_amount
                  = RagProfessionalTax(employee_data.state, employee_data.gross_salary)
            /\ Verdict(ret.validations[1]) = Verdict(ret.validations[2])

\* Two stores holding different PF documents were asked, the texts retrieved
\* from them differ, and the breakdown was found NON_COMPLIANT.
C30_DifferentDocumentsWitness ==
    /\ Called("get_all_applicable_rules")
    /\ unit_call[1].args.stores[1]["pf_rules"] # unit_call[1].args.stores[2]["pf_rules"]
    /\ unit_call[1].args.stores[1]["pf_rules"] # {}
    /\ unit_call[1].args.stores[2]["pf_rules"] # {}
    /\ unit_ret[1].rules[1].pf_rules.rules # unit_ret[1].rules[2].pf_rules.rules
    /\ unit_ret[1].validations[1].compliance_status = "NON_COMPLIANT"

====
